---------------------------- MODULE Spec2Model ----------------------------
(***************************************************************************)
(* Verification model of src/gui.py (real-time voice conversion front      *)
(* end).  Three subsystems are modelled:                                   *)
(*                                                                         *)
(*  - the Harvest pitch worker pool (Harvest.run and the pool start-up),   *)
(*    driven by the pitch request of the inference engine, which submits   *)
(*    batches and waits for their completion token;                        *)
(*  - the session control of class GUI: event_handler, set_values,         *)
(*    start_vc, start_stream, stop_stream and update_devices, with the     *)
(*    module-level running flag flag_vc;                                   *)
(*  - GUI.audio_callback, run by the audio thread of the stream while the  *)
(*    event loop goes on handling events.                                  *)
(*                                                                         *)
(* Each subsystem has its own specification; the variables of the others   *)
(* stay at their initial values.                                           *)
(***************************************************************************)
EXTENDS Integers, Sequences, FiniteSets, TLC

(***************************************************************************)
(* Bounds of the model.                                                    *)
(***************************************************************************)
\* number of Harvest processes started by the pool start-up
NumWorkers == 2
\* largest number of jobs (partitions) of one batch: one more than the pool
\* has workers
MaxJobs == NumWorkers + 1
\* number of batches the pitch requests submit
MaxBatches == 2
\* number of batches submitted to a pool whose workers may stop
StallBatches == 1
\* number of clock ticks a pitch request waits for its token
MaxWait == 1

VARIABLES
    \* ---- Harvest pool ----
    inp_q,      \* multiprocessing.Queue of jobs (idx, x, res_f0, n_cpu, ts)
    opt_q,      \* multiprocessing.Queue of completion tokens ts
    res,        \* the shared result maps, one per batch: res[m][idx]
    wpc,        \* position of every Harvest process in run()
    wjob,       \* the job a Harvest process has taken from inp_q
    puts,       \* history: number of times token ts was put on opt_q
    batch,      \* number of batches begun by the pitch requests
    n_cpu,      \* worker count of the session, the expected_count of its batches
    nextIdx,    \* next job index the current request submits
    cstate,     \* position of the pitch request: idle, submitting, waiting
    waited,     \* clock ticks the current request has waited
    outcome,    \* outcome of the request of every batch
    \* ---- session control (class GUI) ----
    flag_vc,        \* the module-level running flag
    stream,         \* self.stream: None or the stream object held
    sstate,         \* life cycle of every stream object created
    rvc,            \* self.rvc: the engine (gen 0: attribute not set)
    buffers,        \* the buffers allocated by start_vc and what sized them
    gui_config,     \* self.gui_config
    function,       \* self.function
    sd_default,     \* sd.default.device
    input_devices,  \* self.input_devices
    output_devices, \* self.output_devices
    pc,             \* the event loop: running, crashed (uncaught exception), exited
    last,           \* history: the last event handled and how its start ended
    \* ---- audio callback (GUI.audio_callback) ----
    cpc,            \* position of the callback thread in audio_callback
    seen,           \* the settings the running invocation has read so far
    status,         \* the status argument of the invocation
    events,         \* what the invocation printed or showed in the window
    outdata,        \* what the invocation wrote to outdata
    blocks,         \* number of invocations begun
    \* ---- frame sizes and buffers of a session (start_vc, audio_callback) ----
    samplerate,         \* self.gui_config.samplerate
    zc,                 \* self.zc
    block_frame,        \* self.block_frame
    crossfade_frame,    \* self.crossfade_frame
    sola_buffer_frame,  \* self.sola_buffer_frame
    sola_search_frame,  \* self.sola_search_frame
    extra_frame,        \* self.extra_frame
    return_length,      \* self.return_length
    fade_in_window,     \* self.fade_in_window
    fade_out_window,    \* self.fade_out_window
    device,             \* str(self.config.device), fixed when the GUI is built
    input_wav,          \* self.input_wav
    rms_buffer,         \* self.rms_buffer
    indata,             \* the segment the last callback wrote to input_wav
    db_threhold,        \* the frames the last callback found below the threshold
    block,              \* history: the block the stream handed to the last callback
    old_wav,            \* history: self.input_wav before the last callback
    old_rms,            \* history: self.rms_buffer before the last callback
    raw_tail,           \* history: the last 4 * zc samples the stream handed over
    old_raw,            \* history: raw_tail before the last callback
    calls,              \* number of callbacks run on the buffers
    \* ---- SOLA (audio_callback, lines 969-1002) ----
    platform,           \* sys.platform, drawn when the session starts
    infer_wav,          \* the block the last callback took to the SOLA search
    sola_buffer,        \* self.sola_buffer
    cor_nom,            \* cor_nom[0, 0] of the last callback
    cor_den,            \* cor_den[0, 0] ** 2 of the last callback, without 1e-8
    sola_offset,        \* the offset the last search returned
    raised,             \* the exception that ended the last callback, or "none"
    ran,                \* self.function as the last callback read it
    mix_rate,           \* gui_config.rms_mix_rate as the last callback read it
    inferred,           \* infer_wav as the engine or the monitor branch left it
    mixed,              \* whether the last callback ran the envelope mixing
    stitched,           \* infer_wav after the shift and the cross-fade
    emitted,            \* the samples the last callback wrote to outdata
    old_sola,           \* history: self.sola_buffer before the last callback
    blend,              \* how the last callback blended the overlap region
    \* ---- input noise reduction and resampling (lines 877-907) ----
    block_frame_16k,    \* self.block_frame_16k
    input_wav_denoise,  \* self.input_wav_denoise
    nr_buffer,          \* self.nr_buffer
    res_shape,          \* self.input_wav_res.shape[0]
    chunk_shape,        \* length of the resampled chunk of the last callback
    slice_shape,        \* length of the slice it was assigned to
    denoised,           \* what self.tg returned in the last callback
    old_nr,             \* history: self.nr_buffer before the last callback
    old_denoise,        \* history: self.input_wav_denoise before it
    nr_on,              \* gui_config.I_noise_reduce as the last callback read it
    held                \* history: for each callback of the session, whether
                        \* it wrote its block to self.input_wav_denoise

poolVars == <<inp_q, opt_q, res, wpc, wjob, puts, batch, n_cpu, nextIdx,
              cstate, waited, outcome>>

sessionVars == <<flag_vc, stream, sstate, rvc, buffers, gui_config, function,
                 sd_default, input_devices, output_devices, pc>>

guiVars == <<sessionVars, last>>

cbVars == <<cpc, seen, status, events, outdata, blocks>>

frameVars == <<samplerate, zc, block_frame, crossfade_frame, sola_buffer_frame,
               sola_search_frame, extra_frame, return_length, fade_in_window,
               fade_out_window, device>>

gateVars == <<input_wav, rms_buffer, indata, db_threhold, block, old_wav,
              old_rms, raw_tail, old_raw, calls>>

solaVars == <<platform, infer_wav, sola_buffer, cor_nom, cor_den, sola_offset,
              raised, ran, mix_rate, inferred, mixed, stitched, emitted,
              old_sola, blend>>

nrVars == <<block_frame_16k, input_wav_denoise, nr_buffer, res_shape,
            chunk_shape, slice_shape, denoised, old_nr, old_denoise, nr_on,
            held>>

audioVars == <<cbVars, frameVars, gateVars, solaVars, nrVars>>

vars == <<poolVars, guiVars, audioVars>>

Workers == 1..NumWorkers
Batches == 1..MaxBatches
Indices == 0..(MaxJobs - 1)

(***************************************************************************)
(* Values.                                                                 *)
(***************************************************************************)
\* the signal segment of partition idx of batch ts
Segment(ts, idx) == <<ts, idx>>

\* pyworld.harvest(x, fs=16000, ...) is a deterministic function of x
harvest(x) == [of |-> x]

\* an absent key of a result map
NoF0 == [of |-> <<0, 0>>]

NoJob == [idx |-> 0, x |-> <<0, 0>>, res_f0 |-> 0, n_cpu |-> 0, ts |-> 0]

\* res_f0.keys()
Keys(m) == {i \in Indices : m[i] # NoF0}

EmptyMap == [i \in Indices |-> NoF0]

(***************************************************************************)
(* Harvest.run, one action per shared-memory step of the loop body.        *)
(***************************************************************************)
\* line 73: idx, x, res_f0, n_cpu, ts = self.inp_q.get()   (blocks when empty)
Get(w) ==
    /\ wpc[w] = "get"
    /\ inp_q # <<>>
    /\ wjob' = [wjob EXCEPT ![w] = Head(inp_q)]
    /\ inp_q' = Tail(inp_q)
    /\ wpc' = [wpc EXCEPT ![w] = "harvest"]
    /\ UNCHANGED <<opt_q, res, puts, batch, n_cpu, nextIdx, cstate, waited, outcome>>

\* a plausible slip: every result goes to one module-level map
StoreResultShared(r, job) ==
    [r EXCEPT ![1][job.idx] = harvest(job.x)]

\* line 81: res_f0[idx] = f0, on the map the job carries
StoreResult(r, job) ==
    [r EXCEPT ![job.res_f0][job.idx] = harvest(job.x)]

\* lines 74-81: compute the contour and write it into the job's map
HarvestStore(w) ==
    /\ wpc[w] = "harvest"
    /\ res' = StoreResult(res, wjob[w])
    /\ wpc' = [wpc EXCEPT ![w] = "len"]
    /\ UNCHANGED <<inp_q, opt_q, wjob, puts, batch, n_cpu, nextIdx, cstate, waited, outcome>>

\* plausible slips of the threshold test
ReachedOffByOne(m, n) == Cardinality(Keys(m)) >= n - 1
ReachedStrict(m, n) == Cardinality(Keys(m)) > n

\* line 82: len(res_f0.keys()) >= n_cpu
Reached(m, n) == Cardinality(Keys(m)) >= n

\* a slip: the output queue holds one token, put waits for room
PutReadyBounded(q) == Len(q) < 1

\* lines 99-100: Queue() has no maxsize, put returns at once
PutReady(q) == TRUE

\* lines 82-83: if len(res_f0.keys()) >= n_cpu: self.opt_q.put(ts), then back
\* to the head of the loop.  The test is a read of the shared map separate
\* from the write of line 81; a map only grows, so the put that follows a
\* successful test is taken in the same step.
TestAndPut(w) ==
    /\ wpc[w] = "len"
    /\ IF Reached(res[wjob[w].res_f0], wjob[w].n_cpu)
          THEN /\ PutReady(opt_q)
               /\ opt_q' = Append(opt_q, wjob[w].ts)
               /\ puts' = [puts EXCEPT ![wjob[w].ts] = @ + 1]
          ELSE UNCHANGED <<opt_q, puts>>
    /\ wpc' = [wpc EXCEPT ![w] = "get"]
    /\ wjob' = [wjob EXCEPT ![w] = NoJob]
    /\ UNCHANGED <<inp_q, res, batch, n_cpu, nextIdx, cstate, waited, outcome>>

\* lines 74-80: pyworld.harvest raises; run() ends and the process with it,
\* the job it held is lost
HarvestDies(w) ==
    /\ wpc[w] = "harvest"
    /\ wpc' = [wpc EXCEPT ![w] = "dead"]
    /\ UNCHANGED <<inp_q, opt_q, res, wjob, puts, batch, n_cpu, nextIdx, cstate, waited, outcome>>

(***************************************************************************)
(* The pitch request of the inference engine (infer.lib.rtvc, the producer *)
(* of jobs and consumer of tokens).                                        *)
(***************************************************************************)
\* a request starts a batch: a new timestamp, a new result map, k partitions
BeginBatch(limit) ==
    /\ cstate = "idle"
    /\ batch < limit
    /\ batch' = batch + 1
    /\ nextIdx' = 0
    /\ cstate' = "submitting"
    /\ waited' = 0
    /\ UNCHANGED <<inp_q, opt_q, res, wpc, wjob, puts, n_cpu, outcome>>

\* inp_q.put((idx, x, res_f0, n_cpu, ts)) for the next partition
SubmitJob ==
    /\ cstate = "submitting"
    /\ inp_q' = Append(inp_q, [idx |-> nextIdx, x |-> Segment(batch, nextIdx),
                               res_f0 |-> batch, n_cpu |-> n_cpu, ts |-> batch])
    /\ nextIdx' = nextIdx + 1
    /\ cstate' = IF nextIdx + 1 = n_cpu THEN "waiting" ELSE "submitting"
    /\ UNCHANGED <<opt_q, res, wpc, wjob, puts, batch, n_cpu, waited, outcome>>

\* opt_q.get(): the token of the batch ends the wait, any other is dropped
TakeToken ==
    /\ cstate = "waiting"
    /\ opt_q # <<>>
    /\ opt_q' = Tail(opt_q)
    /\ IF Head(opt_q) = batch
          THEN /\ cstate' = "idle"
               /\ outcome' = [outcome EXCEPT ![batch] = "done"]
          ELSE UNCHANGED <<cstate, outcome>>
    /\ UNCHANGED <<inp_q, res, wpc, wjob, puts, batch, n_cpu, nextIdx, waited>>

\* the clock advances while the request waits on an empty output queue
Tick ==
    /\ cstate = "waiting"
    /\ opt_q = <<>>
    /\ waited < MaxWait
    /\ waited' = waited + 1
    /\ UNCHANGED <<inp_q, opt_q, res, wpc, wjob, puts, batch, n_cpu, nextIdx, cstate, outcome>>

\* a slip: the wait has no deadline
TimeoutNever ==
    /\ FALSE
    /\ UNCHANGED vars

\* the wait reached its deadline: the request fails with a timeout
Timeout ==
    /\ cstate = "waiting"
    /\ opt_q = <<>>
    /\ waited = MaxWait
    /\ cstate' = "idle"
    /\ outcome' = [outcome EXCEPT ![batch] = "timeout"]
    /\ UNCHANGED <<inp_q, opt_q, res, wpc, wjob, puts, batch, n_cpu, nextIdx, waited>>

(***************************************************************************)
(* Session control of class GUI.                                           *)
(*                                                                         *)
(* Times are in hundredths of a second, rates in hundredths, strings that  *)
(* are validated are sequences of code points.  The widgets of the window, *)
(* the delay/inference-time displays and the saved configuration file are  *)
(* outside the model; `values` is the widget state window.read() returns.  *)
(***************************************************************************)
\* self.stream = None
None == 0

\* sd.query_hostapis() / sd.query_devices() of the host the program runs on
hostapis == <<"MME", "WASAPI">>
InputsOf(h) == IF h = "MME" THEN <<"mic">> ELSE <<"wmic", "wline">>
OutputsOf(h) == IF h = "MME" THEN <<"spk">> ELSE <<"wspk">>
DeviceIndex == [mic |-> 1, spk |-> 2, wmic |-> 3, wline |-> 4, wspk |-> 5]

Range(q) == {q[i] : i \in 1..Len(q)}

\* upper bound on the number of RVC engines and streams created
MaxStarts == 2

StreamIds == 1..MaxStarts

\* upper bound on the number of hot-updatable settings off their Preset1 value
MaxHot == 1

\* ---------------------------------------------------------------- inputs
\* paths typed into the two path fields: empty, blank, ASCII, non-ASCII
Paths == {<<>>, <<32>>, <<109>>, <<233>>, <<109, 233>>}

Preset1 ==
    [pth_path |-> <<109>>, index_path |-> <<109>>,
     sg_hostapi |-> "MME", sg_wasapi_exclusive |-> FALSE,
     sg_input_device |-> "mic", sg_output_device |-> "spk",
     sr_model |-> TRUE, sr_device |-> FALSE,
     threhold |-> -60, pitch |-> 0, formant |-> 0,
     block_time |-> 25, crossfade_length |-> 5, extra_time |-> 250,
     I_noise_reduce |-> FALSE, O_noise_reduce |-> FALSE, use_pv |-> FALSE,
     rms_mix_rate |-> 0, index_rate |-> 0, n_cpu |-> 1,
     pm |-> FALSE, harvest |-> FALSE, crepe |-> FALSE, rmvpe |-> FALSE,
     fcpe |-> TRUE]

\* another device set-up and sizing, the hot-updatable settings as in Preset1
Preset2 ==
    [Preset1 EXCEPT
       !.sg_hostapi = "WASAPI", !.sg_wasapi_exclusive = TRUE,
       !.sg_input_device = "wmic", !.sg_output_device = "wspk",
       !.sr_model = FALSE, !.sr_device = TRUE,
       !.block_time = 50, !.crossfade_length = 8, !.extra_time = 100,
       !.n_cpu = 2]

\* the widgets of the hot-updatable settings moved off their Preset1 value
HotAlt ==
    [Preset1 EXCEPT
       !.threhold = -40, !.pitch = 12, !.formant = 10, !.index_rate = 50,
       !.rms_mix_rate = 100, !.I_noise_reduce = TRUE, !.O_noise_reduce = TRUE,
       !.use_pv = TRUE]

\* widget states handed to a start request
StartInputs ==
    {[Preset1 EXCEPT !.pth_path = a, !.index_path = b] :
        a \in Paths, b \in {<<>>, <<109>>, <<109, 233>>}}
    \cup
    {[p EXCEPT !.sg_input_device = i] : p \in {Preset1, Preset2},
                                         i \in {"mic", "wmic"}}

\* what the engine and the audio device do on a start
StartOutcomes == {"started", "rvc_fails", "open_fails", "start_fails"}

HostApiInputs == {"MME", "WASAPI", "ASIO"}

F0Names == <<"pm", "harvest", "crepe", "rmvpe", "fcpe">>

\* events of widgets that are neither start_vc nor a hot update
OtherEvents ==
    {"sg_wasapi_exclusive", "sg_input_device", "sg_output_device", "sr_model",
     "sr_device", "block_time", "n_cpu", "crossfade_length", "extra_time"}

\* ------------------------------------------------------------ set_values
\* the code points str.strip() removes
IsSpace(c) == c \in {9, 10, 11, 12, 13, 28, 29, 30, 31, 32, 133, 160}

RECURSIVE lstrip(_)
lstrip(p) == IF p # <<>> /\ IsSpace(Head(p)) THEN lstrip(Tail(p)) ELSE p

RECURSIVE rstrip(_)
rstrip(p) ==
    IF p # <<>> /\ IsSpace(p[Len(p)]) THEN rstrip(SubSeq(p, 1, Len(p) - 1)) ELSE p

\* str.strip()
strip(p) == rstrip(lstrip(p))

\* re.compile("[^\x00-\x7F]+").findall(p)
NonAscii(p) == {i \in 1..Len(p) : p[i] > 127}

\* a slip: the paths are tested for emptiness only
PathsOkNoPattern(v) ==
    /\ Len(strip(v.pth_path)) # 0
    /\ Len(strip(v.index_path)) # 0

\* lines 648-660: the four tests that make set_values return False
PathsOk(v) ==
    /\ Len(strip(v.pth_path)) # 0
    /\ Len(strip(v.index_path)) # 0
    /\ NonAscii(v.pth_path) = {}
    /\ NonAscii(v.index_path) = {}

\* lines 661, 1052-1057: list.index raises ValueError for an unlisted device
DevicesListed(s, v) ==
    /\ v.sg_input_device \in Range(s.input_devices)
    /\ v.sg_output_device \in Range(s.output_devices)

\* [a, b, ...].index(True)
IndexOfTrue(q) == CHOOSE i \in 1..Len(q) : q[i] /\ \A j \in 1..(i - 1) : ~q[j]

SrType(v) == <<"sr_model", "sr_device">>[IndexOfTrue(<<v.sr_model, v.sr_device>>)]

F0Method(v) ==
    F0Names[IndexOfTrue(<<v.pm, v.harvest, v.crepe, v.rmvpe, v.fcpe>>)]

\* lines 661-695: the assignments of set_values once the paths passed
set_values(s, v) ==
    [s EXCEPT
       !.sd_default = <<DeviceIndex[v.sg_input_device],
                        DeviceIndex[v.sg_output_device]>>,
       !.gui_config =
           [pth_path |-> v.pth_path, index_path |-> v.index_path,
            sg_hostapi |-> v.sg_hostapi,
            sg_wasapi_exclusive |-> v.sg_wasapi_exclusive,
            sg_input_device |-> v.sg_input_device,
            sg_output_device |-> v.sg_output_device,
            sr_type |-> SrType(v), threhold |-> v.threhold,
            pitch |-> v.pitch, formant |-> v.formant,
            block_time |-> v.block_time,
            crossfade_time |-> v.crossfade_length,
            extra_time |-> v.extra_time,
            I_noise_reduce |-> v.I_noise_reduce,
            O_noise_reduce |-> v.O_noise_reduce, use_pv |-> v.use_pv,
            rms_mix_rate |-> v.rms_mix_rate, index_rate |-> v.index_rate,
            n_cpu |-> v.n_cpu, f0method |-> F0Method(v)]]

\* ------------------------------------------------- start_stream, stop_stream
NewStream(s) == 1 + Cardinality({i \in StreamIds : s.sstate[i] # "absent"})

\* lines 816-835: flag_vc = True, then sd.Stream(...), then stream.start();
\* either call may raise, and nothing catches it
start_stream(s, o) ==
    IF ~s.flag_vc
    THEN CASE o = "open_fails" -> [s EXCEPT !.flag_vc = TRUE, !.pc = "crashed"]
           [] o = "start_fails" ->
                [s EXCEPT !.flag_vc = TRUE, !.stream = NewStream(s),
                          !.sstate[NewStream(s)] = "open", !.pc = "crashed"]
           [] OTHER ->
                [s EXCEPT !.flag_vc = TRUE, !.stream = NewStream(s),
                          !.sstate[NewStream(s)] = "active"]
    ELSE s

\* a slip: the reference is kept after the stream is closed
stop_stream_keeps_ref(s) ==
    IF s.flag_vc
    THEN IF s.stream # None
         THEN [s EXCEPT !.flag_vc = FALSE, !.sstate[s.stream] = "closed"]
         ELSE [s EXCEPT !.flag_vc = FALSE]
    ELSE s

\* lines 837-844
stop_stream(s) ==
    IF s.flag_vc
    THEN IF s.stream # None
         THEN [s EXCEPT !.flag_vc = FALSE, !.sstate[s.stream] = "closed",
                        !.stream = None]
         ELSE [s EXCEPT !.flag_vc = FALSE]
    ELSE s

\* ------------------------------------------------------------- start_vc
\* lines 698-814: a new engine from the current settings, all buffers sized
\* from them, then start_stream; the RVC constructor may raise
start_vc(s, o) ==
    IF o = "rvc_fails"
    THEN [s EXCEPT !.pc = "crashed"]
    ELSE start_stream(
           [s EXCEPT
              !.rvc = [gen |-> s.rvc.gen + 1, key |-> s.gui_config.pitch,
                       formant |-> s.gui_config.formant,
                       index_rate |-> s.gui_config.index_rate,
                       n_cpu |-> s.gui_config.n_cpu],
              !.buffers = [gen |-> s.buffers.gen + 1,
                           sr_type |-> s.gui_config.sr_type,
                           block_time |-> s.gui_config.block_time,
                           crossfade_time |-> s.gui_config.crossfade_time,
                           extra_time |-> s.gui_config.extra_time]],
           o)

\* -------------------------------------------------------- update_devices
\* lines 1015-1048: flag_vc = False, PortAudio terminated and initialised
\* again (which ends every stream of the library), device lists of the host
\* API, of the first one when the name is unknown
update_devices(s, hostapi_name) ==
    [s EXCEPT
       !.flag_vc = FALSE,
       !.sstate = [i \in StreamIds |->
                     IF s.sstate[i] \in {"open", "active"}
                     THEN "terminated" ELSE s.sstate[i]],
       !.input_devices = InputsOf(IF hostapi_name \in Range(hostapis)
                                  THEN hostapi_name ELSE hostapis[1]),
       !.output_devices = OutputsOf(IF hostapi_name \in Range(hostapis)
                                    THEN hostapi_name ELSE hostapis[1])]

\* lines 531-553: reload_devices / sg_hostapi
reload(s, v) ==
    LET s1 == update_devices([s EXCEPT !.gui_config.sg_hostapi = v.sg_hostapi],
                             v.sg_hostapi)
        s2 == IF s1.gui_config.sg_hostapi \notin Range(hostapis)
              THEN [s1 EXCEPT !.gui_config.sg_hostapi = hostapis[1]] ELSE s1
        s3 == IF /\ s2.gui_config.sg_input_device \notin Range(s2.input_devices)
                 /\ Len(s2.input_devices) > 0
              THEN [s2 EXCEPT !.gui_config.sg_input_device = s2.input_devices[1]]
              ELSE s2
    IN  IF s3.gui_config.sg_output_device \notin Range(s3.output_devices)
        THEN [s3 EXCEPT !.gui_config.sg_output_device = s3.output_devices[1]]
        ELSE s3

\* ---------------------------------------------------------- event_handler
\* a slip: the start button is not guarded by the running flag
StartAcceptedAlways(ev, s) == ev = "start_vc"

\* line 554: event == "start_vc" and not flag_vc
StartAccepted(ev, s) == ev = "start_vc" /\ ~s.flag_vc

\* lines 554-558: set_values, and start_vc when it returned True
start(s, v, o) ==
    IF ~PathsOk(v) THEN s
    ELSE IF ~DevicesListed(s, v) THEN [s EXCEPT !.pc = "crashed"]
    ELSE start_vc(set_values(s, v), o)

\* the engine setters, when self.rvc exists
change(s, field, val) ==
    IF s.rvc.gen > 0 THEN [s EXCEPT !.rvc[field] = val] ELSE s

\* a slip: the block-time widget is applied to the running session
hot_update_live_block(s, ev, v) ==
    IF ev = "block_time" THEN [s EXCEPT !.gui_config.block_time = v.block_time]
    ELSE IF ev = "threhold" THEN [s EXCEPT !.gui_config.threhold = v.threhold]
    ELSE IF ev = "pitch" THEN
        change([s EXCEPT !.gui_config.pitch = v.pitch], "key", v.pitch)
    ELSE IF ev = "formant" THEN
        change([s EXCEPT !.gui_config.formant = v.formant], "formant", v.formant)
    ELSE IF ev = "index_rate" THEN
        change([s EXCEPT !.gui_config.index_rate = v.index_rate],
               "index_rate", v.index_rate)
    ELSE IF ev = "rms_mix_rate" THEN
        [s EXCEPT !.gui_config.rms_mix_rate = v.rms_mix_rate]
    ELSE IF ev \in Range(F0Names) THEN [s EXCEPT !.gui_config.f0method = ev]
    ELSE IF ev = "I_noise_reduce" THEN
        [s EXCEPT !.gui_config.I_noise_reduce = v.I_noise_reduce]
    ELSE IF ev = "O_noise_reduce" THEN
        [s EXCEPT !.gui_config.O_noise_reduce = v.O_noise_reduce]
    ELSE IF ev = "use_pv" THEN [s EXCEPT !.gui_config.use_pv = v.use_pv]
    ELSE IF ev \in {"vc", "im"} THEN [s EXCEPT !.function = ev]
    ELSE IF ev = "stop_vc" \/ ev # "start_vc" THEN stop_stream(s)
    ELSE s

\* lines 608-644: the if/elif chain of hot updates, ending in stop_stream
\* for stop_vc and for every event that is not start_vc
hot_update(s, ev, v) ==
    IF ev = "threhold" THEN [s EXCEPT !.gui_config.threhold = v.threhold]
    ELSE IF ev = "pitch" THEN
        change([s EXCEPT !.gui_config.pitch = v.pitch], "key", v.pitch)
    ELSE IF ev = "formant" THEN
        change([s EXCEPT !.gui_config.formant = v.formant], "formant", v.formant)
    ELSE IF ev = "index_rate" THEN
        change([s EXCEPT !.gui_config.index_rate = v.index_rate],
               "index_rate", v.index_rate)
    ELSE IF ev = "rms_mix_rate" THEN
        [s EXCEPT !.gui_config.rms_mix_rate = v.rms_mix_rate]
    ELSE IF ev \in Range(F0Names) THEN [s EXCEPT !.gui_config.f0method = ev]
    ELSE IF ev = "I_noise_reduce" THEN
        [s EXCEPT !.gui_config.I_noise_reduce = v.I_noise_reduce]
    ELSE IF ev = "O_noise_reduce" THEN
        [s EXCEPT !.gui_config.O_noise_reduce = v.O_noise_reduce]
    ELSE IF ev = "use_pv" THEN [s EXCEPT !.gui_config.use_pv = v.use_pv]
    ELSE IF ev \in {"vc", "im"} THEN [s EXCEPT !.function = ev]
    ELSE IF ev = "stop_vc" \/ ev # "start_vc" THEN stop_stream(s)
    ELSE s

\* a slip: the sizing widgets are applied to the running session
event_handler_live_sizing(s, ev, v, o) ==
    IF ev = "WINDOW_CLOSED"
    THEN [stop_stream(s) EXCEPT !.pc = "exited"]
    ELSE LET s1 == IF ev \in {"reload_devices", "sg_hostapi"}
                   THEN reload(s, v) ELSE s
             s2 == IF StartAccepted(ev, s1) THEN start(s1, v, o) ELSE s1
         IN  IF s2.pc # "running" THEN s2
             ELSE IF ev \in {"block_time", "crossfade_length", "extra_time",
                             "n_cpu"}
             THEN [s2 EXCEPT !.gui_config.block_time = v.block_time,
                             !.gui_config.crossfade_time = v.crossfade_length,
                             !.gui_config.extra_time = v.extra_time,
                             !.gui_config.n_cpu = v.n_cpu]
             ELSE hot_update(s2, ev, v)

\* lines 526-644: one pass of the loop body for event ev with widget state v;
\* o is what the engine and the device do if a start is attempted
event_handler(s, ev, v, o) ==
    IF ev = "WINDOW_CLOSED"
    THEN [stop_stream(s) EXCEPT !.pc = "exited"]
    ELSE LET s1 == IF ev \in {"reload_devices", "sg_hostapi"}
                   THEN reload(s, v) ELSE s
             s2 == IF StartAccepted(ev, s1) THEN start(s1, v, o) ELSE s1
         IN  IF s2.pc = "running" THEN hot_update(s2, ev, v) ELSE s2

\* ------------------------------------------------------------------ state
Cur ==
    [flag_vc |-> flag_vc, stream |-> stream, sstate |-> sstate, rvc |-> rvc,
     buffers |-> buffers, gui_config |-> gui_config, function |-> function,
     sd_default |-> sd_default, input_devices |-> input_devices,
     output_devices |-> output_devices, pc |-> pc]

Becomes(s) ==
    /\ flag_vc' = s.flag_vc
    /\ stream' = s.stream
    /\ sstate' = s.sstate
    /\ rvc' = s.rvc
    /\ buffers' = s.buffers
    /\ gui_config' = s.gui_config
    /\ function' = s.function
    /\ sd_default' = s.sd_default
    /\ input_devices' = s.input_devices
    /\ output_devices' = s.output_devices
    /\ pc' = s.pc

\* what the last event was and how a start attempt ended
StartResult(s, v, o) ==
    IF s.flag_vc THEN "ignored"
    ELSE IF ~PathsOk(v) THEN "rejected"
    ELSE IF ~DevicesListed(s, v) THEN "bad_device"
    ELSE o

\* the event loop takes event ev off the window
\* the events the history names; the rest are recorded as "other"
Tracked == {"start_vc", "stop_vc", "reload_devices", "sg_hostapi",
            "WINDOW_CLOSED"}

Gui(ev, v, o) ==
    /\ pc = "running"
    /\ Becomes(event_handler(Cur, ev, v, o))
    /\ last' = [ev |-> IF ev \in Tracked THEN ev ELSE "other",
                was |-> flag_vc,
                res |-> IF ev = "start_vc" THEN StartResult(Cur, v, o) ELSE "-",
                pth |-> IF ev = "start_vc" THEN v.pth_path ELSE <<>>,
                idx |-> IF ev = "start_vc" THEN v.index_path ELSE <<>>]

\* an event that leaves the queues and the pool as they are
Event(ev, v, o) == Gui(ev, v, o) /\ UNCHANGED poolVars

\* an event handled with the audio thread and the buffers left as they are
Handle(ev, v, o) == Event(ev, v, o) /\ UNCHANGED audioVars

\* the start button; the engine and the device only act when the request
\* gets as far as start_vc
StartVc ==
    /\ rvc.gen < MaxStarts
    /\ \E v \in StartInputs :
         \E o \in IF ~flag_vc /\ PathsOk(v) /\ DevicesListed(Cur, v)
                   THEN StartOutcomes ELSE {"-"} :
            Handle("start_vc", v, o)

StopVc == Handle("stop_vc", Preset1, "-")

ReloadDevices ==
    \E h \in HostApiInputs :
        Handle("reload_devices", [Preset1 EXCEPT !.sg_hostapi = h], "-")

HostApiChanged ==
    \E h \in HostApiInputs :
        Handle("sg_hostapi", [Preset1 EXCEPT !.sg_hostapi = h], "-")

\* number of hot-updatable settings that differ from their Preset1 value
HotChanged(s) ==
    Cardinality({f \in {"threhold", "pitch", "formant", "index_rate",
                        "rms_mix_rate", "I_noise_reduce", "O_noise_reduce",
                        "use_pv"} : s.gui_config[f] # Preset1[f]})
    + (IF s.gui_config.f0method # F0Method(Preset1) THEN 1 ELSE 0)
    + (IF s.function # "vc" THEN 1 ELSE 0)

HotUpdate ==
    \E ev \in {"threhold", "pitch", "formant", "index_rate", "rms_mix_rate",
                "I_noise_reduce", "O_noise_reduce", "use_pv", "vc", "im"}
                \cup Range(F0Names) :
        \E v \in {Preset1, HotAlt} :
            /\ HotChanged(event_handler(Cur, ev, v, "-")) <= MaxHot
            /\ Handle(ev, v, "-")

OtherEvent ==
    \E ev \in OtherEvents, v \in {Preset1, Preset2} : Handle(ev, v, "-")

WindowClosed == Handle("WINDOW_CLOSED", Preset1, "-")

\* lines 24, 110-148: GUIConfig defaults, no stream, no engine, the device
\* lists of the first host API
GuiInitFor(n) ==
    /\ flag_vc = FALSE
    /\ stream = None
    /\ sstate = [i \in StreamIds |-> "absent"]
    /\ rvc = [gen |-> 0, key |-> 0, formant |-> 0, index_rate |-> 0, n_cpu |-> 0]
    /\ buffers = [gen |-> 0, sr_type |-> "sr_model", block_time |-> 0,
                  crossfade_time |-> 0, extra_time |-> 0]
    /\ gui_config =
           [pth_path |-> <<>>, index_path |-> <<>>, sg_hostapi |-> "",
            sg_wasapi_exclusive |-> FALSE, sg_input_device |-> "",
            sg_output_device |-> "", sr_type |-> "sr_model", threhold |-> -60,
            pitch |-> 0, formant |-> 0, block_time |-> 25,
            crossfade_time |-> 5, extra_time |-> 250,
            I_noise_reduce |-> FALSE, O_noise_reduce |-> FALSE,
            use_pv |-> FALSE, rms_mix_rate |-> 0, index_rate |-> 0,
            n_cpu |-> IF n < 4 THEN n ELSE 4,
            f0method |-> "fcpe"]
    /\ function = "vc"
    /\ sd_default = <<DeviceIndex[InputsOf(hostapis[1])[1]],
                      DeviceIndex[OutputsOf(hostapis[1])[1]]>>
    /\ input_devices = InputsOf(hostapis[1])
    /\ output_devices = OutputsOf(hostapis[1])
    /\ pc = "running"
    /\ last = [ev |-> "init", was |-> FALSE, res |-> "-",
               pth |-> <<>>, idx |-> <<>>]

GuiInit == GuiInitFor(NumWorkers)

GuiNext ==
    \/ StartVc
    \/ StopVc
    \/ ReloadDevices
    \/ HostApiChanged
    \/ HotUpdate
    \/ OtherEvent
    \/ WindowClosed

(***************************************************************************)
(* Frame sizes and buffers of a session (start_vc, lines 712-793).         *)
(*                                                                         *)
(* Samples are integers (amplitudes in a fixed unit); sample rates are a   *)
(* few hundred Hz so that zc = samplerate // 100 is 2 or 3 samples.        *)
(***************************************************************************)
\* before the first start_vc the attributes do not exist
NoBuffers ==
    /\ samplerate = 0
    /\ zc = 0
    /\ block_frame = 0
    /\ crossfade_frame = 0
    /\ sola_buffer_frame = 0
    /\ sola_search_frame = 0
    /\ extra_frame = 0
    /\ return_length = 0
    /\ fade_in_window = <<>>
    /\ fade_out_window = <<>>
    /\ input_wav = <<>>
    /\ rms_buffer = <<>>
    /\ indata = <<>>
    /\ db_threhold = <<>>
    /\ block = <<>>
    /\ old_wav = <<>>
    /\ old_rms = <<>>
    /\ raw_tail = <<>>
    /\ old_raw = <<>>
    /\ calls = 0
    /\ platform = "unknown"
    /\ infer_wav = <<>>
    /\ sola_buffer = <<>>
    /\ cor_nom = <<>>
    /\ cor_den = <<>>
    /\ sola_offset = 0
    /\ raised = "none"
    /\ ran = "none"
    /\ mix_rate = 0
    /\ inferred = <<>>
    /\ mixed = FALSE
    /\ stitched = <<>>
    /\ emitted = <<>>
    /\ old_sola = <<>>
    /\ blend = "none"
    /\ block_frame_16k = 0
    /\ input_wav_denoise = <<>>
    /\ nr_buffer = <<>>
    /\ res_shape = 0
    /\ chunk_shape = 0
    /\ slice_shape = 0
    /\ denoised = <<>>
    /\ old_nr = <<>>
    /\ old_denoise = <<>>
    /\ nr_on = FALSE
    /\ held = <<>>

\* self.rvc.tgt_sr or the device's default sample rate
SampleRates == {200, 250, 300}

Min(a, b) == IF a < b THEN a ELSE b

\* int(np.round(a / b)) for positive integers: halves go to the even neighbour
Round(a, b) ==
    LET q == a \div b
        r == a % b
    IN  IF 2 * r < b THEN q
        ELSE IF 2 * r > b THEN q + 1
        ELSE IF q % 2 = 0 THEN q ELSE q + 1

\* a slip: the time is turned into samples without going through zc
FrameUnquantized(t, sr) == Round(t * sr, 100)

\* int(np.round(t * samplerate / zc)) * zc, t in hundredths of a second
Frame(t, sr) == Round(t * sr, 100 * (sr \div 100)) * (sr \div 100)

\* torch.zeros(n)
Zeros(n) == [i \in 1..n |-> 0]

\* 1.0 in the fixed-point scale of the fade windows
Unity == 10000

\* 0.5 * np.pi in that scale
HalfPi == 15708

\* x * y in fixed point
Mul(x, y) == (x * y) \div Unity

\* torch.sin on [0, pi/2], by its series up to the ninth power
Sin(t) ==
    LET t2 == Mul(t, t)
        t3 == Mul(t, t2) \div 6
        t5 == Mul(t3, t2) \div 20
        t7 == Mul(t5, t2) \div 42
        t9 == Mul(t7, t2) \div 72
    IN  Min(Unity, t - t3 + t5 - t7 + t9)

\* torch.linspace(0.0, 1.0, steps=n)[i], i from 1
Linspace(i, n) == IF n = 1 THEN 0 ELSE ((i - 1) * Unity) \div (n - 1)

\* lines 779-792: sin(0.5 * pi * linspace(0, 1, steps)) ** 2
FadeIn(n) ==
    [i \in 1..n |-> Mul(Sin(Mul(HalfPi, Linspace(i, n))),
                        Sin(Mul(HalfPi, Linspace(i, n))))]

\* a slip: one minus the square of the fade-in window
FadeOutOfSquare(fade_in) ==
    [i \in 1..Len(fade_in) |-> Unity - Mul(fade_in[i], fade_in[i])]

\* line 793: 1 - self.fade_in_window
FadeOut(fade_in) == [i \in 1..Len(fade_in) |-> Unity - fade_in[i]]

\* lines 718-777: the frame sizes of a session with settings cfg at rate sr
Sizes(cfg, sr) ==
    LET z == sr \div 100
        bf == Frame(cfg.block_time, sr)
        cf == Frame(cfg.crossfade_time, sr)
        ef == Frame(cfg.extra_time, sr)
        sf == Min(cf, 4 * z)
    IN  [samplerate |-> sr, zc |-> z, block_frame |-> bf,
         crossfade_frame |-> cf, sola_buffer_frame |-> sf,
         sola_search_frame |-> z, extra_frame |-> ef,
         return_length |-> (bf + sf + z) \div z,
         input_len |-> ef + cf + z + bf,
         block_frame_16k |-> (160 * bf) \div z,
         res_len |-> (160 * (ef + cf + z + bf)) \div z]

\* lines 712-793: start_vc sets the frame sizes, allocates the buffers as
\* zeros and builds the fade windows
Allocate(cfg, sr) ==
    LET f == Sizes(cfg, sr)
    IN  /\ samplerate' = f.samplerate
        /\ zc' = f.zc
        /\ block_frame' = f.block_frame
        /\ crossfade_frame' = f.crossfade_frame
        /\ sola_buffer_frame' = f.sola_buffer_frame
        /\ sola_search_frame' = f.sola_search_frame
        /\ extra_frame' = f.extra_frame
        /\ return_length' = f.return_length
        /\ fade_in_window' = FadeIn(f.sola_buffer_frame)
        /\ fade_out_window' = FadeOut(FadeIn(f.sola_buffer_frame))
        /\ input_wav' = Zeros(f.input_len)
        /\ rms_buffer' = Zeros(4 * f.zc)
        /\ indata' = <<>>
        /\ db_threhold' = <<>>
        /\ block' = <<>>
        /\ old_wav' = <<>>
        /\ old_rms' = <<>>
        /\ raw_tail' = Zeros(4 * f.zc)
        /\ old_raw' = <<>>
        /\ calls' = 0
        /\ infer_wav' = <<>>
        /\ sola_buffer' = Zeros(f.sola_buffer_frame)
        /\ cor_nom' = <<>>
        /\ cor_den' = <<>>
        /\ sola_offset' = 0
        /\ raised' = "none"
        /\ ran' = "none"
        /\ mix_rate' = 0
        /\ inferred' = <<>>
        /\ mixed' = FALSE
        /\ stitched' = <<>>
        /\ emitted' = <<>>
        /\ old_sola' = <<>>
        /\ blend' = "none"
        /\ UNCHANGED device
        /\ block_frame_16k' = f.block_frame_16k
        /\ input_wav_denoise' = Zeros(f.input_len)
        /\ nr_buffer' = Zeros(f.sola_buffer_frame)
        /\ res_shape' = f.res_len
        /\ chunk_shape' = 0
        /\ slice_shape' = 0
        /\ denoised' = <<>>
        /\ old_nr' = <<>>
        /\ old_denoise' = <<>>
        /\ nr_on' = FALSE
        /\ held' = <<>>

(***************************************************************************)
(* The noise gate and the update of the raw-input buffer                   *)
(* (audio_callback, lines 854-876).  Python slices are written with their  *)
(* 0-based bounds.                                                         *)
(***************************************************************************)
\* PortAudio calls the callback of the stream that runs
StreamRuns == stream # None /\ sstate[stream] = "active"

\* upper bound on the number of callbacks run on the buffers
MaxCalls == 2

\* q[a:], 0 <= a
From(q, a) == SubSeq(q, a + 1, Len(q))

\* q[-n:], n > 0
LastN(q, n) == IF n >= Len(q) THEN q ELSE SubSeq(q, Len(q) - n + 1, Len(q))

RECURSIVE SumSq(_, _, _)
\* the sum of q[a:b] ** 2, the slice cut to the sequence
SumSq(q, a, b) ==
    IF a >= b \/ a >= Len(q) THEN 0
    ELSE (IF a < 0 THEN 0 ELSE q[a + 1] * q[a + 1]) + SumSq(q, a + 1, b)

\* librosa.feature.rms(y=c, frame_length=4 * z, hop_length=z): 1 + len(c) // z
\* frames, frame j centred on sample j * z of the zero-padded signal; what is
\* kept is the sum of squares, 4 * z times the squared rms
Energy(c, z, j) == SumSq(c, j * z - 2 * z, j * z + 2 * z)

\* the mean square of a sample at threshold t dB (amplitude_to_db, ref=1.0),
\* in units in which -40 dB is an amplitude of 2
Power(t) == IF t = -40 THEN 4 ELSE 0

\* lines 857-864: rms(...)[:, 2:], then amplitude_to_db(rms) < threhold
Decisions(c, z, t) ==
    [i \in 1..(1 + Len(c) \div z - 2) |->
        Energy(c, z, i + 1) < 4 * z * Power(t)]

\* a slip: the frames at or above the threshold are silenced
SilenceLoud(d, z, dec) ==
    [k \in 1..Len(d) |-> IF ~dec[(k - 1) \div z + 1] THEN 0 ELSE d[k]]

\* lines 865-867: d[i * zc : (i + 1) * zc] = 0 for every frame i below
Silence(d, z, dec) ==
    [k \in 1..Len(d) |-> IF dec[(k - 1) \div z + 1] THEN 0 ELSE d[k]]

\* a slip: the second trim is left out
TrimNone(d, z) == d

\* line 868: indata[zc // 2 :]
Trim(d, z) == From(d, z \div 2)

\* lines 855-868: the gate on block blk with lookback tail rmsb
Gate(z, t, rmsb, blk) ==
    LET c == rmsb \o blk
        dec == Decisions(c, z, t)
    IN  [indata |-> Trim(Silence(From(c, 2 * z - z \div 2), z, dec), z),
         rms_buffer |-> LastN(c, 4 * z),
         db_threhold |-> dec]

\* a slip: the tail is written before the buffer is shifted
RingUpdateWriteFirst(w, b, seg) ==
    LET n == Len(seg)
        written == [i \in 1..Len(w) |->
                      IF i > Len(w) - n THEN seg[i - (Len(w) - n)] ELSE w[i]]
    IN  [i \in 1..Len(w) |-> IF i <= Len(w) - b THEN written[i + b]
                             ELSE written[i]]

\* lines 871-876: input_wav[:-b] = input_wav[b:], input_wav[-len(seg):] = seg
RingUpdate(w, b, seg) ==
    LET n == Len(seg)
        shifted == [i \in 1..Len(w) |->
                      IF i <= Len(w) - b THEN w[i + b] ELSE w[i]]
    IN  [i \in 1..Len(w) |->
            IF i > Len(w) - n THEN seg[i - (Len(w) - n)] ELSE shifted[i]]

\* the blocks a stream hands over: quiet, loud, at the threshold, and mixed
BlocksOf(b, z) ==
    {[i \in 1..b |-> 1], [i \in 1..b |-> 3], [i \in 1..b |-> 2],
     [i \in 1..b |-> IF i <= z THEN 1 ELSE 3],
     [i \in 1..b |-> IF i <= z THEN 3 ELSE 1 + (i % 2)]}

\* widget states of a start with the shortest block, crossfade and extra times
GateStarts ==
    {[Preset1 EXCEPT !.block_time = b, !.crossfade_length = 1,
                     !.extra_time = 5] : b \in {2, 3}}

\* the start button with the buffers of start_vc
GateStart ==
    /\ ~flag_vc
    /\ \E v \in GateStarts, sr \in SampleRates :
          /\ Event("start_vc", v, "started")
          /\ Allocate(set_values(Cur, v).gui_config, sr)
    /\ UNCHANGED <<cbVars, platform>>

\* the threshold slider
ThreholdEvent ==
    /\ \E v \in {Preset1, HotAlt} : Handle("threhold", v, "-")

\* lines 854-876: one callback up to the update of self.input_wav
GateCallback ==
    /\ StreamRuns
    /\ calls < MaxCalls
    /\ \E blk \in BlocksOf(block_frame, zc) :
          LET g == IF gui_config.threhold > -60
                   THEN Gate(zc, gui_config.threhold, rms_buffer, blk)
                   ELSE [indata |-> blk, rms_buffer |-> rms_buffer,
                         db_threhold |-> <<>>]
          IN  /\ input_wav' = RingUpdate(input_wav, block_frame, g.indata)
              /\ rms_buffer' = g.rms_buffer
              /\ indata' = g.indata
              /\ db_threhold' = g.db_threhold
              /\ block' = blk
              /\ raw_tail' = LastN(raw_tail \o blk, 4 * zc)
    /\ old_wav' = input_wav
    /\ old_rms' = rms_buffer
    /\ old_raw' = raw_tail
    /\ calls' = calls + 1
    /\ UNCHANGED <<poolVars, guiVars, cbVars, frameVars, solaVars, nrVars>>

(***************************************************************************)
(* The SOLA search and the stitching (audio_callback, lines 909-1002).     *)
(***************************************************************************)
\* upper bound on the number of callbacks that reach the SOLA search
MaxStitch == 2

Platforms == {"linux", "darwin"}

\* a slip: one sample too many is taken for the search
ConvInputLong(y, sbf, ssf) == SubSeq(y, 1, Min(Len(y), sbf + ssf + 1))

\* lines 970-972: infer_wav[None, None, : sola_buffer_frame + sola_search_frame]
ConvInput(y, sbf, ssf) == SubSeq(y, 1, Min(Len(y), sbf + ssf))

RECURSIVE DotAt(_, _, _, _)
\* the sum of a[o + k] * b[k] for k = 1..n
DotAt(a, b, o, n) ==
    IF n = 0 THEN 0 ELSE a[o + n] * b[n] + DotAt(a, b, o, n - 1)

\* F.conv1d(a, b): the correlation of a with kernel b at every offset at
\* which the kernel fits
Conv1d(a, b) ==
    [o \in 1..(Len(a) - Len(b) + 1) |-> DotAt(a, b, o - 1, Len(b))]

Squares(a) == [i \in 1..Len(a) |-> a[i] * a[i]]

Ones(n) == [i \in 1..n |-> 1]

\* cor_nom / cor_den at offset i is less than at offset j; den is
\* sqrt(energy + 1e-8), and a window of zero energy has a zero numerator
Less(nom, en, i, j) ==
    IF nom[i] < 0 /\ nom[j] >= 0 THEN TRUE
    ELSE IF nom[i] >= 0 /\ nom[j] < 0 THEN FALSE
    ELSE IF nom[i] = 0 THEN nom[j] > 0
    ELSE IF nom[j] = 0 THEN FALSE
    ELSE IF nom[i] > 0 THEN nom[i] * nom[i] * en[j] < nom[j] * nom[j] * en[i]
    ELSE nom[i] * nom[i] * en[j] > nom[j] * nom[j] * en[i]

\* line 985: torch.argmax, the 0-based index of the first maximal value
ArgMax(nom, en) ==
    CHOOSE o \in 0..(Len(nom) - 1) :
        /\ \A j \in 1..Len(nom) : ~Less(nom, en, o + 1, j)
        /\ \A j \in 1..o : Less(nom, en, j, o + 1)

\* lines 981-985: on darwin `_, sola_offset = torch.max(x)` unpacks the
\* 0-dimensional tensor torch.max returns for one argument, which raises
\* TypeError; elsewhere torch.argmax
Search(pf, nom, en, before) ==
    IF pf = "darwin"
    THEN [raised |-> "TypeError", sola_offset |-> before]
    ELSE [raised |-> "none", sola_offset |-> ArgMax(nom, en)]

\* lines 987-1002 without the phase vocoder: the block from the offset on,
\* its first sola_buffer_frame samples cross-faded with self.sola_buffer
Stitch(y, o, sb, fi, fo) ==
    LET shifted == From(y, o)
    IN  [k \in 1..Len(shifted) |->
            IF k <= Len(sb)
            THEN Mul(shifted[k], fi[k]) + Mul(sb[k], fo[k])
            ELSE shifted[k]]

\* one thousandth, the unit of the envelopes and gains; 1e-3 is the floor of
\* line 965
Milli == 1000

Max(a, b) == IF a > b THEN a ELSE b

\* the sequence q with every element computed
AsTuple(q) == SubSeq(q, 1, Len(q))

RECURSIVE Isqrt(_, _, _)
\* the largest r in lo..hi with r * r <= x
Isqrt(x, lo, hi) ==
    IF lo >= hi THEN lo
    ELSE LET mid == (lo + hi + 1) \div 2
         IN  IF mid * mid <= x THEN Isqrt(x, mid, hi) ELSE Isqrt(x, lo, mid - 1)

\* frame j of librosa.feature.rms(y=q, frame_length=4 * z, hop_length=z),
\* in thousandths
Rms(q, z, j) == Isqrt((Energy(q, z, j) * Milli * Milli) \div (4 * z), 0, 4 * Milli)

\* F.interpolate(rms, size=n + 1, mode="linear", align_corners=True)[:-1] of
\* the 1 + n // z frames: sample i lies (i - 1) / z frames into the signal
Envelope(q, z, n) ==
    LET t == AsTuple(q)
        r == AsTuple([j \in 1..(1 + n \div z) |-> Rms(t, z, j - 1)])
    IN  AsTuple([i \in 1..n |->
                   LET a == (i - 1) \div z
                       f == (i - 1) % z
                   IN  IF f = 0 THEN r[a + 1]
                       ELSE (r[a + 1] * (z - f) + r[a + 2] * f) \div z])

\* the rms_mix_rate values of the model, in hundredths
MixRates == {0, 50, 100}

\* lines 965-968: pow(rms1 / max(rms2, 1e-3), 1 - rms_mix_rate), in
\* thousandths, for the rates of MixRates
Gain(e1, e2, rate) ==
    LET ratio == (e1 * Milli) \div Max(e2, 1)
    IN  IF rate = 0 THEN ratio
        ELSE IF rate = 50 THEN Isqrt(ratio * Milli, 0, 40 * Milli)
        ELSE Milli

\* lines 937-968: infer_wav scaled by the ratio of the envelope of the input
\* history ref to its own
Mix(y, ref, z, rate) ==
    LET n == Len(y)
        e1 == Envelope(SubSeq(ref, 1, Min(Len(ref), n)), z, n)
        e2 == Envelope(y, z, n)
    IN  AsTuple([i \in 1..n |-> (y[i] * Gain(e1[i], e2[i], rate)) \div Milli])

\* a slip: the mixing also runs on the monitored input
MixesInMonitor(rate, fn) == rate < 100

\* line 936: self.gui_config.rms_mix_rate < 1 and self.function == "vc"
Mixes(rate, fn) == rate < 100 /\ fn = "vc"

\* a slip: the extra history is played back as well
MonitorWhole(w, e) == w

\* lines 920-923 with input noise reduction off: self.input_wav[extra_frame:]
Monitor(w, e) == From(w, e)

\* a slip: the tail is taken from the start of the stitched block
TailOfHead(st, b, n) == SubSeq(st, 1, n)

\* lines 1000-1002: infer_wav[block_frame : block_frame + sola_buffer_frame]
TailOf(st, b, n) == SubSeq(st, b + 1, Min(Len(st), b + n))

\* a slip: the whole stitched block is written
EmitAll(st, b) == st

\* lines 1003-1009: outdata[:] = infer_wav[: self.block_frame]
Emit(st, b) == SubSeq(st, 1, Min(Len(st), b))

\* the blocks self.rvc.infer returns: the engine's return_length * zc
\* samples, at the device's rate
EngineOutputs(n) ==
    {[i \in 1..n |-> ((i * i) % 5) - 2],
     [i \in 1..n |-> IF i % 3 = 0 THEN 3 ELSE -1],
     [i \in 1..n |-> 2]}

SolaBlocks(b, z) ==
    {[i \in 1..b |-> 1 + (i % 3)], [i \in 1..b |-> IF i <= z THEN 3 ELSE 0]}

\* widget states of a start: crossfade times below, at and above 4 * zc, the
\* loudness factor at 1
SolaStarts ==
    {[Preset1 EXCEPT !.block_time = 2, !.crossfade_length = x,
                     !.extra_time = 5, !.rms_mix_rate = 100] :
        x \in {1, 3, 4, 5}}

\* the start button with the buffers of start_vc
SolaStart ==
    /\ ~flag_vc
    /\ \E v \in SolaStarts, sr \in SampleRates, pf \in Platforms :
          /\ Event("start_vc", v, "started")
          /\ Allocate(set_values(Cur, v).gui_config, sr)
          /\ platform' = pf
    /\ UNCHANGED cbVars

\* the vc / im radio buttons
FunctionEvent == \E ev \in {"vc", "im"} : Handle(ev, Preset1, "-")

\* the loudness factor slider
MixRateEvent ==
    \E x \in MixRates :
        Handle("rms_mix_rate", [Preset1 EXCEPT !.rms_mix_rate = x], "-")

(***************************************************************************)
(* phase_vocoder (lines 34-59), in the fixed-point scale of the fade       *)
(* windows: samples are integers, windows, sines and angles are in units   *)
(* of 1 / Unity.                                                           *)
(***************************************************************************)
\* np.pi and 2 * np.pi in that scale
Pi == 31416

TwoPi == 62832

Abs(x) == IF x < 0 THEN -x ELSE x

\* torch.sin and torch.cos for any angle, by the series on [0, pi/2]
SinAny(x) ==
    LET r == x % TwoPi
    IN  IF r <= HalfPi THEN Sin(r)
        ELSE IF r <= Pi THEN Sin(Pi - r)
        ELSE IF r <= Pi + HalfPi THEN -Sin(r - Pi)
        ELSE -Sin(TwoPi - r)

CosAny(x) == SinAny(x + HalfPi)

\* x * y in fixed point for an x beyond the range of Mul
MulBig(x, y) == ((x \div 100) * y) \div 100

RECURSIVE SumTo(_, _)
\* f[1] + ... + f[n]
SumTo(f, n) == IF n = 0 THEN 0 ELSE f[n] + SumTo(f, n - 1)

\* bin k of torch.fft.rfft(x): sum of x[i] * exp(-2 pi j k i / n)
Rfft(x, k) ==
    LET n == Len(x)
        th(i) == (TwoPi * k * (i - 1)) \div n
    IN  [re |-> SumTo([i \in 1..n |-> Mul(x[i], CosAny(th(i)))], n),
         im |-> - SumTo([i \in 1..n |-> Mul(x[i], SinAny(th(i)))], n)]

\* torch.abs of a complex number
Hypot(c) ==
    LET d == 1 + Max(Abs(c.re), Abs(c.im)) \div 20000
        x == Abs(c.re) \div d
        y == Abs(c.im) \div d
    IN  d * Isqrt(x * x + y * y, 0, 30000)

RECURSIVE AtanBisect(_, _, _, _)
\* the angle in lo..hi whose tangent is y / x, for x, y >= 0
AtanBisect(y, x, lo, hi) ==
    IF lo >= hi THEN lo
    ELSE LET mid == (lo + hi + 1) \div 2
         IN  IF y * CosAny(mid) - x * SinAny(mid) >= 0
             THEN AtanBisect(y, x, mid, hi)
             ELSE AtanBisect(y, x, lo, mid - 1)

\* torch.angle of a complex number, in (-pi, pi]
Angle(c) ==
    LET d == 1 + Max(Abs(c.re), Abs(c.im)) \div 20000
        x == Abs(c.re) \div d
        y == Abs(c.im) \div d
        base == IF x = 0 /\ y = 0 THEN 0 ELSE AtanBisect(y, x, 0, HalfPi)
    IN  IF c.re >= 0
        THEN IF c.im >= 0 THEN base ELSE -base
        ELSE IF c.im >= 0 THEN Pi - base ELSE base - Pi

\* lines 34-59: phase_vocoder(a, b, fade_out, fade_in)
PhaseVocoder(a, b, fo, fi) ==
    LET n == Len(a)
        bins == n \div 2 + 1
        window == AsTuple([i \in 1..n |-> Isqrt(fo[i] * fi[i], 0, Unity)])
        fa == AsTuple([k \in 1..bins |->
                  Rfft([i \in 1..n |-> a[i] * window[i]], k - 1)])
        fb == AsTuple([k \in 1..bins |->
                  Rfft([i \in 1..n |-> b[i] * window[i]], k - 1)])
        doubled(k) == IF n % 2 = 0 THEN k > 1 /\ k < bins ELSE k > 1
        absab == AsTuple([k \in 1..bins |->
                    (Hypot(fa[k]) + Hypot(fb[k]))
                    * (IF doubled(k) THEN 2 ELSE 1)])
        phia == AsTuple([k \in 1..bins |-> Angle(fa[k])])
        phib == AsTuple([k \in 1..bins |-> Angle(fb[k])])
        deltaphase == AsTuple([k \in 1..bins |->
                         ((phib[k] - phia[k] + Pi) % TwoPi) - Pi])
        w(k) == TwoPi * (k - 1) + deltaphase[k]
        spectral(i) ==
            SumTo([k \in 1..bins |->
                      MulBig(absab[k],
                             CosAny((w(k) * (i - 1)) \div n + phia[k]))],
                  bins)
    IN  [i \in 1..n |->
            (a[i] * Mul(fo[i], fo[i]) + b[i] * Mul(fi[i], fi[i])
             + MulBig(spectral(i), window[i]) \div n) \div Unity]

\* lines 987 and 995-1000: the block from the offset on, its first
\* sola_buffer_frame samples replaced by the phase vocoder's blend of
\* self.sola_buffer and themselves
StitchPv(y, o, sb, fi, fo) ==
    LET shifted == From(y, o)
        head == AsTuple(PhaseVocoder(sb, SubSeq(shifted, 1, Len(sb)), fo, fi))
    IN  [k \in 1..Len(shifted) |->
            IF k <= Len(sb) THEN head[k] ELSE shifted[k]]

\* the values of str(self.config.device) of the program's compute devices
Devices == {"cpu", "cuda:0", "privateuseone:0"}

\* "privateuseone" in str(self.config.device)
PrivateUse(dev) == dev \in {"privateuseone", "privateuseone:0"}

\* a slip: the phase vocoder is taken on every device
UsesVocoderAnyDevice(dev, pv) == pv

\* line 988: the phase vocoder blends the overlap unless the device is a
\* privateuseone device or use_pv is off
UsesVocoder(dev, pv) == ~(PrivateUse(dev) \/ ~pv)

\* lines 909-1009 with the output noise reduction off: the inference or the
\* monitor branch, the envelope mixing, the SOLA search, the cross-fade and
\* the block written to outdata; src is the buffer the monitor branch and the
\* mixing read, self.input_wav_denoise with the input noise reduction on and
\* self.input_wav without
Infer(src) ==
    /\ \E y0 \in IF function = "vc"
                 THEN EngineOutputs(return_length * zc)
                 ELSE {Monitor(src, extra_frame)} :
          LET y == IF Mixes(gui_config.rms_mix_rate, function)
                   THEN Mix(y0, From(src, extra_frame), zc,
                            gui_config.rms_mix_rate)
                   ELSE y0
              ci == ConvInput(y, sola_buffer_frame, sola_search_frame)
              nom == Conv1d(ci, sola_buffer)
              en == Conv1d(Squares(ci), Ones(sola_buffer_frame))
              r == Search(platform, nom, en, sola_offset)
              pv == UsesVocoder(device, gui_config.use_pv)
              st == AsTuple(IF pv
                            THEN StitchPv(y, r.sola_offset, sola_buffer,
                                          fade_in_window, fade_out_window)
                            ELSE Stitch(y, r.sola_offset, sola_buffer,
                                        fade_in_window, fade_out_window))
          IN  /\ inferred' = y0
              /\ infer_wav' = y
              /\ cor_nom' = nom
              /\ cor_den' = en
              /\ raised' = r.raised
              /\ sola_offset' = r.sola_offset
              /\ IF r.raised # "none"
                 THEN UNCHANGED <<sola_buffer, stitched, emitted, old_sola,
                                  blend>>
                 ELSE /\ stitched' = st
                      /\ old_sola' = sola_buffer
                      /\ blend' = IF pv THEN "phase_vocoder" ELSE "linear"
                      /\ sola_buffer' = TailOf(st, block_frame,
                                               sola_buffer_frame)
                      /\ emitted' = Emit(st, block_frame)
    /\ ran' = function
    /\ mix_rate' = gui_config.rms_mix_rate
    /\ mixed' = Mixes(gui_config.rms_mix_rate, function)

\* length of the tensor torchaudio's Resample(orig_freq = sr, new_freq =
\* 16000) returns for n samples: ceil(16000 * n / sr)
ResampleLen(n, sr) == (16000 * n + sr - 1) \div sr

\* lines 899-907: the lengths of self.resampler(...)[160:] and of the slice
\* of self.input_wav_res it is assigned to; nr is I_noise_reduce, n is
\* indata.shape[0], wlen the length of the buffer that is resampled
Resampling(nr, n, wlen, b, b16, z, sr, reslen) ==
    IF nr
    THEN [chunk |-> Max(0, ResampleLen(Min(wlen, b + 2 * z), sr) - 160),
          slice |-> Min(reslen, b16 + 160)]
    ELSE [chunk |-> Max(0, ResampleLen(Min(wlen, n + 2 * z), sr) - 160),
          slice |-> Min(reslen, 160 * (n \div z + 1))]

\* what self.tg (TorchGate) can return for a segment: a tensor of the same
\* length, here the segment itself or the segment at half the amplitude
Denoisings(seg) == {seg, [i \in 1..Len(seg) |-> seg[i] \div 2]}

\* a slip: the head is faded in and the residual tail is not added
NrBlendNoTail(dn, nrb, fi, fo) ==
    [k \in 1..Len(dn) |->
        IF k <= Len(nrb) THEN Mul(dn[k], fi[k]) ELSE dn[k]]

\* lines 890-893: the first sola_buffer_frame samples of the denoised segment
\* times the fade-in window plus self.nr_buffer times the fade-out window
NrBlend(dn, nrb, fi, fo) ==
    [k \in 1..Len(dn) |->
        IF k <= Len(nrb)
        THEN Mul(dn[k], fi[k]) + Mul(nrb[k], fo[k])
        ELSE dn[k]]

\* lines 883-885 and 895-897: self.input_wav_denoise moved left by
\* block_frame, its last block_frame samples the head of the blended segment
DenoiseUpdate(den, bl, b) == AsTuple(From(den, b) \o SubSeq(bl, 1, b))

\* line 898: self.nr_buffer[:] = input_wav[self.block_frame :]
Residual(bl, b) == AsTuple(From(bl, b))

\* lines 854-1009: one callback with the output noise reduction off, the
\* callbacks of a session counted up to limit
Callback(limit) ==
    /\ StreamRuns
    /\ calls < limit
    /\ \E blk \in SolaBlocks(block_frame, zc) :
          LET g == IF gui_config.threhold > -60
                   THEN Gate(zc, gui_config.threhold, rms_buffer, blk)
                   ELSE [indata |-> blk, rms_buffer |-> rms_buffer,
                         db_threhold |-> <<>>]
              w == RingUpdate(input_wav, block_frame, g.indata)
              nr == gui_config.I_noise_reduce
              rs == Resampling(nr, Len(g.indata), Len(w), block_frame,
                               block_frame_16k, zc, samplerate, res_shape)
          IN  /\ input_wav' = w
              /\ rms_buffer' = g.rms_buffer
              /\ indata' = g.indata
              /\ db_threhold' = g.db_threhold
              /\ block' = blk
              /\ raw_tail' = LastN(raw_tail \o blk, 4 * zc)
              /\ chunk_shape' = rs.chunk
              /\ slice_shape' = rs.slice
              /\ \E dn \in IF nr
                           THEN Denoisings(LastN(w, sola_buffer_frame
                                                    + block_frame))
                           ELSE {<<>>} :
                    LET bl == NrBlend(dn, nr_buffer, fade_in_window,
                                      fade_out_window)
                        den == IF nr
                               THEN DenoiseUpdate(input_wav_denoise, bl,
                                                  block_frame)
                               ELSE input_wav_denoise
                    IN  /\ denoised' = dn
                        /\ input_wav_denoise' = den
                        /\ nr_buffer' = IF nr THEN Residual(bl, block_frame)
                                        ELSE nr_buffer
                        /\ IF rs.chunk # rs.slice
                           THEN /\ raised' = "RuntimeError"
                                /\ UNCHANGED <<inferred, infer_wav, cor_nom,
                                               cor_den, sola_offset,
                                               sola_buffer, stitched, emitted,
                                               old_sola, blend, ran, mix_rate,
                                               mixed>>
                           ELSE Infer(IF nr THEN den ELSE w)
    /\ nr_on' = gui_config.I_noise_reduce
    /\ held' = Append(held, gui_config.I_noise_reduce)
    /\ old_nr' = nr_buffer
    /\ old_denoise' = input_wav_denoise
    /\ old_wav' = input_wav
    /\ old_rms' = rms_buffer
    /\ old_raw' = raw_tail
    /\ calls' = calls + 1
    /\ UNCHANGED <<poolVars, guiVars, cbVars, frameVars, platform,
                   block_frame_16k, res_shape>>

SolaCallback == Callback(MaxStitch)

(***************************************************************************)
(* GUI.audio_callback as the audio thread runs it: one step per read of a  *)
(* setting the event loop can change meanwhile.                            *)
(***************************************************************************)
\* upper bound on the number of callback invocations
MaxBlocks == 2

\* the flags a CallbackFlags status argument can carry
StatusFlags == {"none", "input_overflow", "output_underflow"}

Unread == "unread"

NothingSeen ==
    [gate |-> Unread, threhold |-> Unread, denoise |-> Unread,
     function |-> Unread, source |-> Unread, mix |-> Unread]

\* no stream yet, so no invocation; d is the compute device of Config()
AudioInitOn(d) ==
    /\ cpc = "idle"
    /\ seen = NothingSeen
    /\ status = "none"
    /\ events = {}
    /\ outdata = "unwritten"
    /\ blocks = 0
    /\ NoBuffers
    /\ device = d

AudioInit == AudioInitOn("cpu")

\* lines 846-854: the stream hands a block and its status to the callback
CbBegin ==
    /\ StreamRuns
    /\ cpc \in {"idle", "raised"}
    /\ blocks < MaxBlocks
    /\ blocks' = blocks + 1
    /\ \E f \in StatusFlags : status' = f
    /\ seen' = NothingSeen
    /\ events' = {}
    /\ outdata' = "unwritten"
    /\ cpc' = "l855"
    /\ UNCHANGED <<poolVars, guiVars, frameVars, gateVars, solaVars, nrVars>>

\* line 855: if self.gui_config.threhold > -60
CbGateTest ==
    /\ cpc = "l855"
    /\ seen' = [seen EXCEPT !.gate = IF gui_config.threhold > -60
                                     THEN "on" ELSE "off"]
    /\ cpc' = IF gui_config.threhold > -60 THEN "l863" ELSE "l882"
    /\ UNCHANGED <<status, events, outdata, blocks, poolVars, guiVars, frameVars,
                   gateVars, solaVars, nrVars>>

\* lines 856-868: the frames are compared with self.gui_config.threhold
CbGate ==
    /\ cpc = "l863"
    /\ seen' = [seen EXCEPT !.threhold = IF gui_config.threhold > -60
                                         THEN "on" ELSE "off"]
    /\ cpc' = "l882"
    /\ UNCHANGED <<status, events, outdata, blocks, poolVars, guiVars, frameVars,
                   gateVars, solaVars, nrVars>>

\* lines 870-907: the buffers are shifted; the denoised input buffer is
\* filled only if self.gui_config.I_noise_reduce
CbDenoise ==
    /\ cpc = "l882"
    /\ seen' = [seen EXCEPT !.denoise = IF gui_config.I_noise_reduce
                                        THEN "denoised" ELSE "input"]
    /\ cpc' = "l910"
    /\ UNCHANGED <<status, events, outdata, blocks, poolVars, guiVars, frameVars,
                   gateVars, solaVars, nrVars>>

\* line 910: if self.function == "vc"
CbFunction ==
    /\ cpc = "l910"
    /\ seen' = [seen EXCEPT !.function = function]
    /\ cpc' = IF function = "vc" THEN "l911" ELSE "l920"
    /\ UNCHANGED <<status, events, outdata, blocks, poolVars, guiVars, frameVars,
                   gateVars, solaVars, nrVars>>

\* lines 911-919: self.rvc.infer(...) returns, or raises; nothing in the
\* callback catches the exception, so the invocation ends there, and the
\* library may end the stream
CbInfer ==
    /\ cpc = "l911"
    /\ \/ /\ cpc' = "l926"
          /\ UNCHANGED sstate
       \/ /\ cpc' = "raised"
          /\ \E after \in {"active", "aborted"} :
                sstate' = [sstate EXCEPT ![stream] = after]
    /\ UNCHANGED <<seen, status, events, outdata, blocks, poolVars, last,
                   flag_vc, stream, rvc, buffers, gui_config, function,
                   sd_default, input_devices, output_devices, pc, frameVars,
                   gateVars, solaVars, nrVars>>

\* lines 920-923: input monitor: the denoised buffer or the raw one
CbMonitor ==
    /\ cpc = "l920"
    /\ seen' = [seen EXCEPT !.source = IF gui_config.I_noise_reduce
                                       THEN "denoised" ELSE "input"]
    /\ cpc' = "l926"
    /\ UNCHANGED <<status, events, outdata, blocks, poolVars, guiVars, frameVars,
                   gateVars, solaVars, nrVars>>

\* lines 926-968: output noise reduction, then the envelope mixing, which
\* reads self.function and self.gui_config.I_noise_reduce again
CbMix ==
    /\ cpc = "l926"
    /\ seen' = [seen EXCEPT !.mix =
                   IF gui_config.rms_mix_rate < 100 /\ function = "vc"
                   THEN IF gui_config.I_noise_reduce THEN "denoised" ELSE "input"
                   ELSE "none"]
    /\ cpc' = "l969"
    /\ UNCHANGED <<status, events, outdata, blocks, poolVars, guiVars, frameVars,
                   gateVars, solaVars, nrVars>>

\* lines 969-1009: SOLA, printt("sola_offset = %d"), outdata[:] = ...
CbOut ==
    /\ cpc = "l969"
    /\ events' = events \cup {"sola_offset"}
    /\ outdata' = IF seen.function = "vc" THEN "converted" ELSE seen.source
    /\ cpc' = "l1010"
    /\ UNCHANGED <<seen, status, blocks, poolVars, guiVars, frameVars, gateVars,
                   solaVars, nrVars>>

\* lines 1010-1013: the inference time goes to the window if flag_vc, and to
\* the console
CbEnd ==
    /\ cpc = "l1010"
    /\ events' = events \cup {"Infer time"}
                        \cup (IF flag_vc THEN {"infer_time"} ELSE {})
    /\ cpc' = "idle"
    /\ UNCHANGED <<seen, status, outdata, blocks, poolVars, guiVars, frameVars,
                   gateVars, solaVars, nrVars>>

(***************************************************************************)
(* Specifications of the pool.                                             *)
(***************************************************************************)
\* lines 100-107: two empty queues, NumWorkers processes at the loop head
PoolStarted(n) ==
    /\ inp_q = <<>>
    /\ opt_q = <<>>
    /\ res = [m \in Batches |-> EmptyMap]
    /\ wpc = [w \in 1..n |-> "get"]
    /\ wjob = [w \in 1..n |-> NoJob]
    /\ puts = [m \in Batches |-> 0]
    /\ batch = 0
    /\ nextIdx = 0
    /\ cstate = "idle"
    /\ waited = 0
    /\ outcome = [m \in Batches |-> "none"]

\* lines 104-107: the processes that were started
Started == Cardinality(DOMAIN wpc)

PoolInit ==
    /\ PoolStarted(NumWorkers)
    /\ n_cpu \in 1..MaxJobs
    /\ GuiInit
    /\ AudioInit

WorkerStep(w) == Get(w) \/ HarvestStore(w) \/ TestAndPut(w)

PoolNext ==
    /\ \/ \E w \in Workers : WorkerStep(w)
       \/ BeginBatch(MaxBatches)
       \/ SubmitJob
       \/ TakeToken
    /\ UNCHANGED <<guiVars, audioVars>>

\* pool in which harvest always returns and the request waits for its token
PoolSpec == PoolInit /\ [][PoolNext]_vars

\* every live process is scheduled, the request thread runs
PoolFair ==
    /\ \A w \in Workers : WF_poolVars(WorkerStep(w))
    /\ WF_poolVars(SubmitJob)
    /\ WF_poolVars(TakeToken)

FairPoolSpec == PoolSpec /\ PoolFair

\* number of worker processes of the program in this specification
StallWorkers == 1

\* lines 100-148: the queues, the pool and the GUI
StallInit ==
    /\ PoolStarted(StallWorkers)
    /\ n_cpu \in 1..MaxJobs
    /\ GuiInitFor(StallWorkers)
    /\ AudioInit

StallNext ==
    /\ \/ \E w \in 1..StallWorkers : WorkerStep(w)
       \/ BeginBatch(StallBatches)
       \/ SubmitJob
       \/ TakeToken
       \/ \E w \in 1..StallWorkers : HarvestDies(w)
       \/ Tick
       \/ Timeout
    /\ UNCHANGED <<guiVars, audioVars>>

\* pool in which harvest may end a worker and the request has a deadline
StallSpec == StallInit /\ [][StallNext]_vars

\* every live process is scheduled, the request thread runs and its clock
\* advances
FairStallSpec ==
    /\ StallSpec
    /\ \A w \in 1..StallWorkers : WF_poolVars(WorkerStep(w))
    /\ WF_poolVars(SubmitJob)
    /\ WF_poolVars(TakeToken)
    /\ WF_poolVars(Tick)
    /\ WF_poolVars(Timeout)

(***************************************************************************)
(* Specification of the session control: the event loop alone, the pool    *)
(* idle.                                                                   *)
(***************************************************************************)
Init == PoolInit /\ n_cpu = 1

Next == GuiNext

Spec == Init /\ [][Next]_vars

(***************************************************************************)
(* Specification of the pool across sessions: the queues and the workers   *)
(* are those of the program, a session's engine sends pitch requests while *)
(* its stream runs, and the stop button may come while a request is        *)
(* outstanding.                                                            *)
(***************************************************************************)
\* number of worker processes of the program in this specification
StopWorkers == 1

\* lines 100-148: the queues, the pool and the GUI
StopInit ==
    /\ PoolStarted(StopWorkers)
    /\ n_cpu = 1
    /\ GuiInitFor(StopWorkers)
    /\ AudioInit

\* lines 698-711: the engine of a session gets gui_config.n_cpu and the
\* program's two queues
SessionStart ==
    /\ ~flag_vc
    /\ rvc.gen < MaxStarts
    /\ \E n \in 1..Started :
          /\ Gui("start_vc", [Preset1 EXCEPT !.n_cpu = n], "started")
          /\ n_cpu' = n
    /\ UNCHANGED <<inp_q, opt_q, res, wpc, wjob, puts, batch, nextIdx, cstate,
                   waited, outcome, audioVars>>

\* a slip: stop_stream empties the job queue
StopDrains(q) == <<>>

\* lines 837-844: stop_stream touches neither queue
StopLeaves(q) == q

\* lines 837-844: the stream is aborted; a request of its engine that is
\* outstanding is given up, the jobs and tokens stay where they are
SessionStop ==
    /\ flag_vc
    /\ Gui("stop_vc", Preset1, "-")
    /\ inp_q' = StopLeaves(inp_q)
    /\ opt_q' = StopLeaves(opt_q)
    /\ cstate' = "idle"
    /\ outcome' = IF cstate = "idle" THEN outcome
                  ELSE [outcome EXCEPT ![batch] = "abandoned"]
    /\ UNCHANGED <<res, wpc, wjob, puts, batch, n_cpu, nextIdx, waited,
                   audioVars>>

\* the engine of the running session asks for a pitch contour
SessionBatch ==
    /\ StreamRuns
    /\ BeginBatch(MaxBatches)
    /\ UNCHANGED <<guiVars, audioVars>>

SessionPool ==
    /\ \/ \E w \in DOMAIN wpc : WorkerStep(w)
       \/ SubmitJob
       \/ TakeToken
    /\ UNCHANGED <<guiVars, audioVars>>

StopNext ==
    \/ SessionStart
    \/ SessionStop
    \/ SessionBatch
    \/ SessionPool

StopSpec == StopInit /\ [][StopNext]_vars

\* every worker process is scheduled
FairStopSpec ==
    StopSpec /\ \A w \in 1..StopWorkers : WF_poolVars(WorkerStep(w))

(***************************************************************************)
(* Specification of the worker counts: the program starts on a machine     *)
(* with some number of cores, the n_cpu slider is set and sessions are     *)
(* started and stopped.                                                    *)
(***************************************************************************)
\* upper bound on the cores of the machine
MaxCores == 9

\* line 102: the cap on the number of processes
PoolCap == 8

\* line 102: n_cpu = min(cpu_count(), 8)
PoolSize(cores) == IF cores < PoolCap THEN cores ELSE PoolCap

\* lines 100-148: the queues, the pool and the GUI on a machine with some
\* number of cores
CpuInit ==
    \E cores \in 1..MaxCores :
        /\ PoolStarted(PoolSize(cores))
        /\ n_cpu = 1
        /\ GuiInitFor(PoolSize(cores))
        /\ AudioInit

\* lines 439-449: the slider offers 1..n_cpu
SliderValues == 1..Started

\* the start button with the slider at some value
CpuStart ==
    /\ rvc.gen < MaxStarts
    /\ \E n \in SliderValues, o \in StartOutcomes :
          Handle("start_vc", [Preset1 EXCEPT !.n_cpu = n], o)

\* the slider is moved: not a hot update, the stream is stopped
CpuSlider ==
    \E n \in SliderValues : Handle("n_cpu", [Preset1 EXCEPT !.n_cpu = n], "-")

CpuNext ==
    \/ CpuStart
    \/ CpuSlider
    \/ StopVc

CpuSpec == CpuInit /\ [][CpuNext]_vars

(***************************************************************************)
(* Specification of the audio thread next to the event loop: a session is  *)
(* started, the callback runs block after block, and the event loop        *)
(* handles hot updates in between the callback's steps.                    *)
(***************************************************************************)
CbStart == Handle("start_vc", Preset1, "started")

CallbackStep ==
    \/ CbBegin
    \/ CbGateTest
    \/ CbGate
    \/ CbDenoise
    \/ CbFunction
    \/ CbInfer
    \/ CbMonitor
    \/ CbMix
    \/ CbOut
    \/ CbEnd

CallbackNext ==
    \/ CbStart
    \/ HotUpdate
    \/ CallbackStep

CallbackSpec == Init /\ [][CallbackNext]_vars

(***************************************************************************)
(* Specification of the gate and the raw-input buffer: a session is        *)
(* started, the threshold slider moves, the callback takes blocks.         *)
(***************************************************************************)
GateNext ==
    \/ GateStart
    \/ ThreholdEvent
    \/ GateCallback

GateSpec == Init /\ [][GateNext]_vars

(***************************************************************************)
(* Specification of the stitching: a session is started on some platform,  *)
(* the vc / im buttons are pressed, the callback takes blocks.             *)
(***************************************************************************)
SolaNext ==
    \/ SolaStart
    \/ FunctionEvent
    \/ SolaCallback

SolaSpec == Init /\ [][SolaNext]_vars

(***************************************************************************)
(* Specification of the envelope mixing: a session is started, the vc / im *)
(* buttons and the loudness factor slider are moved, the callback takes    *)
(* blocks.                                                                 *)
(***************************************************************************)
\* upper bound on the number of callbacks of a session
MaxMix == 1

\* widget states of a start: one sizing
MixStarts ==
    {[Preset1 EXCEPT !.block_time = 2, !.crossfade_length = 3,
                     !.extra_time = 5, !.rms_mix_rate = x] : x \in MixRates}

MixStart ==
    /\ ~flag_vc
    /\ \E v \in MixStarts, sr \in SampleRates, pf \in Platforms :
          /\ Event("start_vc", v, "started")
          /\ Allocate(set_values(Cur, v).gui_config, sr)
          /\ platform' = pf
    /\ UNCHANGED cbVars

MixCallback == Callback(MaxMix)

MixNext ==
    \/ MixStart
    \/ FunctionEvent
    \/ MixRateEvent
    \/ MixCallback

MixSpec == Init /\ [][MixNext]_vars

(***************************************************************************)
(* The callback with the input noise reduction on or off:                  *)
(* audio_callback, lines 877-907.                                          *)
(***************************************************************************)
\* upper bound on the number of callbacks of a session
MaxNr == 2

\* widget states of a start: the crossfade below and above the block, the
\* input noise reduction and the gate on or off
NrStarts ==
    {[Preset1 EXCEPT !.block_time = 2, !.crossfade_length = x,
                     !.extra_time = 5, !.rms_mix_rate = 100,
                     !.I_noise_reduce = n, !.threhold = t] :
        x \in {1, 4}, n \in BOOLEAN, t \in {-60, -40}}

NrStart ==
    /\ ~flag_vc
    /\ \E v \in NrStarts, sr \in SampleRates, pf \in Platforms :
          /\ Event("start_vc", v, "started")
          /\ Allocate(set_values(Cur, v).gui_config, sr)
          /\ platform' = pf
    /\ UNCHANGED cbVars

\* the input noise reduction checkbox
NrEvent ==
    \E n \in BOOLEAN :
        Handle("I_noise_reduce", [Preset1 EXCEPT !.I_noise_reduce = n], "-")

NrCallback == Callback(MaxNr)

NrNext ==
    \/ NrStart
    \/ NrEvent
    \/ FunctionEvent
    \/ NrCallback

NrSpec == Init /\ [][NrNext]_vars

(***************************************************************************)
(* The frame sizes of a session: start_vc, lines 712-777.                  *)
(***************************************************************************)
\* widget states of a start: the ends and the defaults of the block time,
\* crossfade length and extra time sliders, in hundredths of a second
FrameStarts ==
    {[Preset1 EXCEPT !.block_time = b, !.crossfade_length = c,
                     !.extra_time = e] :
        b \in {2, 25, 150}, c \in {1, 5, 15}, e \in {5, 250}}

\* a 48 kHz session with a block of 0.25 s
Studio ==
    [Preset1 EXCEPT !.block_time = 25, !.crossfade_length = 5,
                    !.extra_time = 5]

StudioRate == 48000

\* the start button with the sizes and buffers of start_vc
FrameStart ==
    /\ ~flag_vc
    /\ \E in \in (FrameStarts \X SampleRates) \cup {<<Studio, StudioRate>>} :
          /\ Event("start_vc", in[1], "started")
          /\ Allocate(set_values(Cur, in[1]).gui_config, in[2])
    /\ UNCHANGED <<cbVars, platform>>

FrameNext ==
    \/ FrameStart
    \/ FunctionEvent
    \/ ThreholdEvent

FrameSpec == Init /\ [][FrameNext]_vars

(***************************************************************************)
(* The blend of the overlap region: audio_callback, lines 987-1002, on the *)
(* compute devices of the program.                                         *)
(***************************************************************************)
\* upper bound on the number of callbacks of a session
MaxPv == 1

\* lines 100-148: the pool and the GUI on one of the compute devices
PvInit ==
    /\ PoolStarted(NumWorkers)
    /\ n_cpu = 1
    /\ GuiInit
    /\ \E d \in Devices : AudioInitOn(d)

\* widget states of a start: the crossfade below and at 4 * zc, the phase
\* vocoder on or off, the loudness factor at 1
PvStarts ==
    {[Preset1 EXCEPT !.block_time = 2, !.crossfade_length = x,
                     !.extra_time = 5, !.rms_mix_rate = 100,
                     !.use_pv = p] :
        x \in {2, 4}, p \in BOOLEAN}

PvStart ==
    /\ ~flag_vc
    /\ \E v \in PvStarts, sr \in SampleRates, pf \in Platforms :
          /\ Event("start_vc", v, "started")
          /\ Allocate(set_values(Cur, v).gui_config, sr)
          /\ platform' = pf
    /\ UNCHANGED cbVars

\* the phase vocoder checkbox
PvEvent ==
    \E p \in BOOLEAN : Handle("use_pv", [Preset1 EXCEPT !.use_pv = p], "-")

PvCallback == Callback(MaxPv)

PvNext ==
    \/ PvStart
    \/ PvEvent
    \/ FunctionEvent
    \/ PvCallback

PvSpec == PvInit /\ [][PvNext]_vars

(***************************************************************************)
(* Properties of the pool.                                                 *)
(***************************************************************************)
\* every index of batch m has its result in the map of the batch
Complete(m) == \A i \in 0..(n_cpu - 1) : res[m][i] = harvest(Segment(m, i))

\* C1: the completion token of a batch is put on the output queue exactly
\* once; stated here as its safety half, never more than once.
C1_TokenPutOnce == \A m \in Batches : puts[m] <= 1

\* C2: whenever a worker has put the token of a batch, and
\* whenever the request has taken it, the map of the batch holds the result
\* of every one of its expected_count indices.
C2_TokenAfterAllResults ==
    \A m \in Batches :
        \/ puts[m] > 0
        \/ outcome[m] = "done"
        => Complete(m)

\* a token was put for a batch of several partitions
C2_Witness == \E m \in Batches : puts[m] > 0 /\ n_cpu >= 2 /\ outcome[m] = "done"

\* C3: the entries of the map of a batch are results of that batch's own
\* partitions only, so no entry written for another batch is counted or
\* seen among them.
C3_NoStaleEntries ==
    \A m \in Batches : \A i \in Indices :
        res[m][i] # NoF0 => i < n_cpu /\ res[m][i] = harvest(Segment(m, i))

\* the second batch completed through the pool that served the first, while
\* results of the first are still around
C3_Witness ==
    /\ batch >= 2
    /\ outcome[2] = "done"
    /\ Keys(res[1]) # {}
    /\ Keys(res[2]) # {}

\* C4: with every worker scheduled fairly, each batch that was begun gets
\* all its results and its completion token, also when it has more
\* partitions than there are workers.
C4_EveryBatchCompletes ==
    \A m \in Batches : (batch >= m) ~> (puts[m] > 0 /\ Complete(m))

\* a batch larger than the pool got its token
C4_Witness == \E m \in Batches : n_cpu > NumWorkers /\ puts[m] > 0

C6_StartWhileStreamingNoOp ==
    [][flag_vc =>
         /\ last'.ev = "start_vc" => UNCHANGED sessionVars
         /\ \A o \in StartOutcomes : start_stream(Cur, o) = Cur]_vars

\* the start button was pressed while streaming
C6_Witness ==
    /\ last.ev = "start_vc"
    /\ last.res = "ignored"
    /\ flag_vc
    /\ stream # None
    /\ sstate[stream] = "active"

\* C7: when creating or starting the audio stream fails, the session is
\* left with the running flag false and no stream held.
C7_FailedStartLeavesIdle ==
    last.ev = "start_vc" /\ last.res \in {"open_fails", "start_fails"}
        => ~flag_vc /\ stream = None

\* a path that is empty or holds a character outside ASCII
BadPath(p) == p = <<>> \/ \E i \in 1..Len(p) : p[i] > 127

\* C8: a start request in state Idle whose model path or index path is
\* empty or holds a non-ASCII character changes nothing of the session:
\* no setting, no device selection, no engine, no buffer, no stream, and the
\* running flag stays false.
C8_BadPathRejected ==
    [][/\ last'.ev = "start_vc"
       /\ ~flag_vc
       /\ BadPath(last'.pth) \/ BadPath(last'.idx)
       => /\ UNCHANGED sessionVars
          /\ ~flag_vc'
          /\ last'.res = "rejected"]_vars

\* a start request was rejected for its paths
C8_Witness ==
    /\ last.ev = "start_vc"
    /\ last.res = "rejected"
    /\ BadPath(last.pth)
    /\ ~BadPath(last.idx)
    /\ ~flag_vc
    /\ rvc.gen = 0

\* C9: a stop request with the running flag set ends with the flag false,
\* the stream that was held closed and the reference None, the event loop
\* still running; a stop request with the flag not set changes nothing.
C9_StopEndsIdle ==
    [][last'.ev = "stop_vc" =>
         IF flag_vc
         THEN /\ stream # None
              /\ ~flag_vc'
              /\ stream' = None
              /\ sstate'[stream] = "closed"
              /\ pc' = "running"
         ELSE UNCHANGED sessionVars]_vars

\* a running session was stopped
C9_Witness ==
    /\ last.ev = "stop_vc"
    /\ last.was
    /\ ~flag_vc
    /\ stream = None
    /\ \E i \in StreamIds : sstate[i] = "closed"

\* C10: after a device-list reload or host-API change received while
\* streaming, the stream is stopped and its reference cleared.
C10_ReloadReleasesStream ==
    last.ev \in {"reload_devices", "sg_hostapi"} /\ last.was
        => ~flag_vc /\ stream = None

\* the settings the audio callback reads from gui_config at every block
HotRead ==
    {"threhold", "I_noise_reduce", "O_noise_reduce", "rms_mix_rate", "use_pv",
     "f0method"}

\* the settings that size the session or select its devices and model
Sizing ==
    {"pth_path", "index_path", "sg_hostapi", "sg_wasapi_exclusive",
     "sg_input_device", "sg_output_device", "sr_type", "block_time",
     "crossfade_time", "extra_time", "n_cpu"}

\* C11 (as stated): while the running flag stays set, the noise-gate
\* threshold, the two noise-reduction flags, the RMS mix rate, the
\* phase-vocoder flag and the pitch method keep their value.
C11_OnlyPitchFormantIndexChange ==
    [][flag_vc /\ flag_vc' =>
         \A f \in HotRead : gui_config'[f] = gui_config[f]]_vars

\* C11 (amended): while the running flag stays set, the paths, the devices,
\* the sample-rate type, block time, crossfade time, extra time and the
\* worker-pool size keep their value, and so do the engine's pool size and
\* the buffers sized from them; the settings of the hot-update chain are the
\* ones that can change.
C11_SizingFixedWhileStreaming ==
    [][flag_vc /\ flag_vc' =>
         /\ \A f \in Sizing : gui_config'[f] = gui_config[f]
         /\ buffers' = buffers
         /\ rvc'.gen = rvc.gen
         /\ rvc'.n_cpu = rvc.n_cpu]_vars

\* the threshold was moved while the session streams, after a start that set
\* it to the value of the start request
C11_Witness ==
    /\ flag_vc
    /\ stream # None
    /\ sstate[stream] = "active"
    /\ last.ev = "other"
    /\ last.was
    /\ gui_config.threhold # Preset1.threhold
    /\ gui_config.block_time = buffers.block_time

(***************************************************************************)
(* Properties of the audio callback.                                       *)
(***************************************************************************)
\* C12: an invocation that has run to its end has observed every setting
\* with one value: the threshold that switched the gate on is the one the
\* frames were compared with, and the input-noise-reduction flag that
\* decided whether the denoised buffer was filled is the one that chose the
\* monitor source and the envelope reference.
C12_SettingsReadOnce ==
    cpc \in {"l1010", "idle"} /\ blocks > 0 =>
        /\ seen.threhold # Unread => seen.threhold = seen.gate
        /\ seen.source # Unread => seen.source = seen.denoise
        /\ seen.mix \notin {Unread, "none"} => seen.mix = seen.denoise

\* C13: an invocation in which the engine raised has written the raw or the
\* denoised input to outdata, and the stream still runs.
C13_InferFailurePassesThrough ==
    cpc = "raised" =>
        /\ outdata \in {"input", "denoised"}
        /\ StreamRuns

\* C14: an invocation that has run to its end with an overflow or underflow
\* flag in its status has produced an event for that flag.
C14_StatusSurfaced ==
    cpc = "idle" /\ blocks > 0 /\ status # "none" => status \in events

(***************************************************************************)
(* Properties of the gate and the raw-input buffer.                        *)
(***************************************************************************)
\* the last callback ran the gate
Gated == calls > 0 /\ db_threhold # <<>>

\* C15 (as stated): after every callback the raw-input buffer has the length
\* it had, everything before its last block_frame positions is the previous
\* content moved left by block_frame, and the last block_frame positions
\* hold the new segment.
C15_ShiftAndAppendBlock ==
    calls > 0 =>
        /\ Len(input_wav) = Len(old_wav)
        /\ \A i \in 1..(Len(input_wav) - block_frame) :
              input_wav[i] = old_wav[i + block_frame]
        /\ LastN(input_wav, block_frame) = LastN(indata, block_frame)

\* C15 (amended): after every callback the raw-input buffer has the length
\* it had, its last len(segment) positions hold the segment the callback
\* handed over, and everything before them is the previous content moved
\* left by block_frame; with the gate off the segment is the block itself.
C15_ShiftAndAppendSegment ==
    calls > 0 =>
        /\ Len(input_wav) = Len(old_wav)
        /\ Len(indata) <= Len(input_wav)
        /\ \A i \in 1..(Len(input_wav) - Len(indata)) :
              input_wav[i] = old_wav[i + block_frame]
        /\ LastN(input_wav, Len(indata)) = indata
        /\ ~Gated => indata = block

\* the second callback of a session with the gate on, samples of the first
\* block moved into the part that is only shifted
C15_Witness ==
    /\ calls = 2
    /\ Gated
    /\ \E i \in 1..(Len(input_wav) - Len(indata)) : input_wav[i] # 0
    /\ \E i \in 1..Len(indata) : indata[i] # 0

\* C16 (as stated): with the gate on, the segment handed to the buffer
\* update has block_frame samples.
C16_GatedCountIsBlockFrame == Gated => Len(indata) = block_frame

\* C16 (amended): with the gate on, the segment handed to the buffer update
\* has block_frame + 2 * zc samples, for every block_frame and zc; with the
\* gate off it has block_frame samples; the buffer keeps its length in both.
C16_GatedCountIsBlockPlusTwoZc ==
    calls > 0 =>
        /\ Len(block) = block_frame
        /\ Len(indata) = IF Gated THEN block_frame + 2 * zc ELSE block_frame
        /\ Len(db_threhold) = IF Gated THEN block_frame \div zc + 3 ELSE 0
        /\ Len(rms_buffer) = 4 * zc
        /\ Len(input_wav) = Len(old_wav)

\* the gate ran with an odd zc and a block of three frames
C16_Witness ==
    /\ Gated
    /\ zc = 3
    /\ block_frame = 3 * zc

\* C17: when every frame of a callback is below the threshold every sample
\* of the gated segment is zero; when every frame is at or above it, no
\* sample is altered: the segment is the input from 2 * zc samples before the
\* block on, and its last block_frame samples are the block.
C17_GateSilencesOrKeeps ==
    Gated =>
        /\ (\A i \in 1..Len(db_threhold) : db_threhold[i])
              => \A k \in 1..Len(indata) : indata[k] = 0
        /\ (\A i \in 1..Len(db_threhold) : ~db_threhold[i])
              => /\ indata = From(old_rms \o block, 2 * zc)
                 /\ LastN(indata, block_frame) = block

\* a quiet block after a quiet block: every frame is below, the samples
\* were not zero
C17_Witness ==
    /\ Gated
    /\ calls = 2
    /\ \A i \in 1..Len(db_threhold) : db_threhold[i]
    /\ \A k \in 1..Len(block) : block[k] # 0
    /\ \E k \in 1..Len(old_rms) : old_rms[k] # 0

\* a loud block after a loud block: every frame is at or above
C17_WitnessLoud ==
    /\ Gated
    /\ \A i \in 1..Len(db_threhold) : ~db_threhold[i]
    /\ \E k \in 1..Len(block) : block[k] # 0

\* C25: a worker that cannot take a step is at the head of its loop with
\* the job queue empty; whenever a job is pending some worker can step.
C25_WorkersWaitOnlyOnEmptyQueue ==
    /\ \A w \in Workers :
          ~ENABLED WorkerStep(w) => wpc[w] = "get" /\ inp_q = <<>>
    /\ inp_q # <<>> => \E w \in Workers : ENABLED WorkerStep(w)

\* a job is pending while every worker is busy with another one, one of
\* them about to test the map, and a token that nobody took is on the output
\* queue
C25_Witness ==
    /\ inp_q # <<>>
    /\ opt_q # <<>>
    /\ \A w \in Workers : wpc[w] \in {"harvest", "len"}
    /\ \E w \in Workers : wpc[w] = "len"

(***************************************************************************)
(* Properties of the pool across sessions.                                 *)
(***************************************************************************)
\* job i of batch m is in the job queue or held by a worker
Outstanding(m, i) ==
    \/ \E k \in 1..Len(inp_q) : inp_q[k].ts = m /\ inp_q[k].idx = i
    \/ \E w \in DOMAIN wpc :
          wpc[w] # "get" /\ wjob[w].ts = m /\ wjob[w].idx = i

\* job i of batch m was computed and its worker is back at the queue
Finished(m, i) ==
    /\ ~Outstanding(m, i)
    /\ res[m][i] = harvest(Segment(m, i))

C21_SessionWorkersAtMostFour ==
    /\ Started <= PoolCap
    /\ rvc.gen > 0 => rvc.n_cpu <= 4 /\ rvc.n_cpu <= Started

(***************************************************************************)
(* Properties of the SOLA search and the fade windows.                     *)
(***************************************************************************)
\* the last callback reached the SOLA search
Searched == calls > 0 /\ cor_nom # <<>>

C18_WitnessVc ==
    /\ Searched
    /\ function = "vc"
    /\ raised = "none"
    /\ sola_offset > 0
    /\ sola_offset < sola_search_frame

\* C19: on every platform the search yields an offset, the lowest of the
\* offsets whose normalized correlation is maximal.
C19_LowestArgmaxOnEveryPlatform ==
    Searched =>
        /\ raised = "none"
        /\ sola_offset = ArgMax(cor_nom, cor_den)

\* C20 as stated: both fade windows have sola_buffer_frame values and the
\* squares of the two values at every index add up to one (to within 1%).
C20_FadeSquaresSumToOne ==
    /\ Len(fade_in_window) = sola_buffer_frame
    /\ Len(fade_out_window) = sola_buffer_frame
    /\ \A i \in 1..Len(fade_in_window) :
          LET sq == fade_in_window[i] * fade_in_window[i]
                    + fade_out_window[i] * fade_out_window[i]
          IN  /\ sq >= Unity * Unity - (Unity * Unity) \div 100
              /\ sq <= Unity * Unity + (Unity * Unity) \div 100

\* C20: both fade windows have sola_buffer_frame values and the two values
\* at every index add up to one.
C20_FadeValuesSumToOne ==
    /\ Len(fade_in_window) = sola_buffer_frame
    /\ Len(fade_out_window) = sola_buffer_frame
    /\ \A i \in 1..Len(fade_in_window) :
          fade_in_window[i] + fade_out_window[i] = Unity

\* a session whose windows have values strictly between zero and one
C20_Witness ==
    /\ flag_vc
    /\ sola_buffer_frame >= 3
    /\ \E i \in 1..Len(fade_in_window) :
          /\ fade_in_window[i] > 0
          /\ fade_in_window[i] < Unity

(***************************************************************************)
(* Properties of the emitted block.                                        *)
(***************************************************************************)
\* the last callback ran in input-monitor mode with the gate and the input
\* noise reduction off and wrote a block
PassThrough ==
    /\ calls > 0
    /\ ran = "im"
    /\ db_threhold = <<>>
    /\ raised = "none"
    /\ emitted # <<>>

\* how many samples the emitted sample k lies behind sample k of the newest
\* block in the input ring buffer
Delay == crossfade_frame + sola_search_frame - sola_offset

\* the emitted samples after the cross-faded ones are the ring buffer's
\* samples d positions before the newest block's
CopyDelayedBy(d) ==
    \A k \in (sola_buffer_frame + 1)..block_frame :
        emitted[k] = input_wav[Len(input_wav) - block_frame + k - d]

\* C22 as stated: a pass-through block is the input delayed by
\* extra_time + crossfade_time + block_time, within one block period.
C22_DelayIsExtraCrossfadeBlock ==
    PassThrough =>
        /\ CopyDelayedBy(Delay)
        /\ Delay >= extra_frame + crossfade_frame
        /\ Delay <= extra_frame + crossfade_frame + 2 * block_frame

\* C22: a pass-through block is, after its cross-faded head, a copy of the
\* input ring buffer delayed by the crossfade time plus the search time minus
\* the chosen offset.
C22_DelayIsCrossfadePlusSearchLessOffset ==
    PassThrough =>
        /\ CopyDelayedBy(Delay)
        /\ Delay >= crossfade_frame
        /\ Delay <= crossfade_frame + sola_search_frame

\* a second pass-through block with a non-zero offset whose copied part is
\* not constant
C22_Witness ==
    /\ PassThrough
    /\ calls = 2
    /\ sola_offset > 0
    /\ sola_buffer_frame + 2 <= block_frame
    /\ emitted[block_frame] # emitted[block_frame - 1]

C24_MixOnlyBelowOneInVc ==
    calls > 0 =>
        /\ mixed <=> (mix_rate < 100 /\ ran = "vc")
        /\ ~mixed => infer_wav = inferred
        /\ mixed => infer_wav = Mix(inferred, From(input_wav, extra_frame),
                                    zc, mix_rate)
        /\ input_wav = RingUpdate(old_wav, block_frame, indata)

\* a converted block with the factor at 1 that the mixer would have changed
C24_Witness ==
    /\ calls > 0
    /\ ran = "vc"
    /\ mix_rate = 100
    /\ ~mixed
    /\ Mix(inferred, From(input_wav, extra_frame), zc, 0) # inferred

\* a converted block that the mixer changed
C24_WitnessMixed ==
    /\ calls > 0
    /\ mixed
    /\ mix_rate = 50
    /\ infer_wav # inferred


(***************************************************************************)
(* Properties of the resampling and of the input noise reduction.          *)
(***************************************************************************)
\* C27: in every callback, with the input noise reduction on or off and the
\* gate on or off, the resampled chunk without its first 160 samples has the
\* length of the slice of the 16 kHz buffer it is assigned to, so that the
\* assignment does not raise, and the 16 kHz buffer has
\* 160 * len(input_wav) / zc samples.
C27_ChunkFitsSlice ==
    calls > 0 =>
        /\ chunk_shape = slice_shape
        /\ raised # "RuntimeError"
        /\ res_shape = (160 * Len(input_wav)) \div zc

\* C27 at the sample rates that are a multiple of 100: the chunk fits the
\* slice on both paths, with the gate on or off
C27_ChunkFitsSliceAtHundreds ==
    (calls > 0 /\ samplerate = 100 * zc) =>
        /\ chunk_shape = slice_shape
        /\ raised # "RuntimeError"
        /\ res_shape = (160 * Len(input_wav)) \div zc
        /\ slice_shape = IF nr_on THEN block_frame_16k + 160
                         ELSE 160 * (Len(indata) \div zc + 1)


\* the first sola_buffer_frame samples of the segment self.tg returned
\* cross-faded with the residual tail of the call before, the rest as
\* returned
Blended ==
    [k \in 1..Len(denoised) |->
        IF k <= sola_buffer_frame
        THEN Mul(denoised[k], fade_in_window[k])
             + Mul(old_nr[k], fade_out_window[k])
        ELSE denoised[k]]

\* the last callback ran the input noise reduction
Reduced == calls > 0 /\ nr_on

\* what every callback with the input noise reduction on does to the
\* denoised ring buffer, and the lengths that never change
BlendAndAppend ==
    /\ Len(nr_buffer) = sola_buffer_frame
    /\ Len(input_wav_denoise) = Len(input_wav)
    /\ Reduced =>
          /\ Len(denoised) = sola_buffer_frame + block_frame
          /\ Len(old_nr) = sola_buffer_frame
          /\ Len(old_denoise) = Len(input_wav_denoise)
          /\ \A i \in 1..(Len(input_wav_denoise) - block_frame) :
                input_wav_denoise[i] = old_denoise[i + block_frame]
          /\ LastN(input_wav_denoise, block_frame)
                = SubSeq(Blended, 1, block_frame)

\* C28 as stated: the first sola_buffer_frame samples of the gated segment
\* are blended with the previous residual tail, the first block_frame samples
\* of the result go to the tail of the denoised ring buffer, and the
\* remaining sola_buffer_frame samples are stored unblended as the residual
\* tail; the two lengths never change.
C28_ResidualIsUnblended ==
    /\ BlendAndAppend
    /\ Reduced =>
          nr_buffer = SubSeq(denoised, block_frame + 1,
                             block_frame + sola_buffer_frame)

\* C28: as above, the residual tail being the sola_buffer_frame samples of
\* the result that follow the first block_frame: unblended from position
\* sola_buffer_frame - block_frame on, and all of them unblended when
\* sola_buffer_frame <= block_frame.
C28_ResidualFollowsBlock ==
    /\ BlendAndAppend
    /\ Reduced =>
          /\ nr_buffer = SubSeq(Blended, block_frame + 1,
                                block_frame + sola_buffer_frame)
          /\ \A k \in 1..sola_buffer_frame :
                k > sola_buffer_frame - block_frame
                    => nr_buffer[k] = denoised[block_frame + k]

\* a second denoised block whose head was blended with a residual tail that
\* is not silent, the block at least as long as the crossfade
C28_Witness ==
    /\ Reduced
    /\ calls = 2
    /\ sola_buffer_frame <= block_frame
    /\ \E k \in 1..sola_buffer_frame :
          /\ old_nr[k] # 0
          /\ fade_out_window[k] > 0
          /\ Blended[k] # denoised[k]
    /\ \E k \in 1..sola_buffer_frame : nr_buffer[k] # 0

\* a block shorter than the crossfade: the residual tail starts with blended
\* samples
C28_WitnessShortBlock ==
    /\ Reduced
    /\ sola_buffer_frame > block_frame
    /\ nr_buffer[1] # denoised[block_frame + 1]


(***************************************************************************)
(* Properties of the frame sizes.                                          *)
(***************************************************************************)
\* C29: for every sample rate and every block, crossfade and extra time a
\* session is started with, block_frame, crossfade_frame and extra_frame are
\* multiples of zc = samplerate // 100 and block_frame_16k is
\* 160 * block_frame / zc with no remainder; at 48 kHz with a block of 0.25 s
\* zc is 480 and block_frame a multiple of 480.
C29_FramesAreMultiplesOfZc ==
    samplerate > 0 =>
        /\ zc = samplerate \div 100
        /\ zc > 0
        /\ block_frame % zc = 0
        /\ crossfade_frame % zc = 0
        /\ extra_frame % zc = 0
        /\ block_frame > 0
        /\ block_frame_16k * zc = 160 * block_frame
        /\ (samplerate = 48000 /\ gui_config.block_time = 25) =>
              /\ zc = 480
              /\ block_frame % 480 = 0
              /\ block_frame = 12000
              /\ block_frame_16k = 4000

\* the 48 kHz session of 0.25 s blocks
C29_Witness ==
    /\ flag_vc
    /\ samplerate = 48000
    /\ gui_config.block_time = 25
    /\ block_frame_16k = (160 * block_frame) \div 480

\* a session whose sample rate is not a multiple of 100 and whose block time
\* falls between two multiples of zc
C29_WitnessRounded ==
    /\ flag_vc
    /\ samplerate # 100 * zc
    /\ block_frame * 100 # gui_config.block_time * samplerate


(***************************************************************************)
(* The running flag and the stream reference.                              *)
(***************************************************************************)
\* C30: between the handlers, after any sequence of start, stop,
\* device-reload, host-API-change and hot-update events, the running flag is
\* set exactly when a stream is held, and at most one stream is open.
C30_FlagIffStreamHeld ==
    /\ flag_vc <=> stream # None
    /\ Cardinality({i \in StreamIds : sstate[i] \in {"open", "active"}}) <= 1


(***************************************************************************)
(* Properties of the denoised ring buffer across switches of the input     *)
(* noise reduction.                                                        *)
(***************************************************************************)
\* the last callback read self.input_wav_denoise: as the monitored block, or
\* as the reference of the envelope mixing
DenoisedRead ==
    /\ calls > 0
    /\ nr_on
    /\ chunk_shape = slice_shape
    /\ ran = "im" \/ mixed

\* the callbacks whose blocks a ring buffer of the length of
\* self.input_wav_denoise holds when no block is missing: the last
\* ceil(length / block_frame) of the session
InWindow(j) == (Len(held) - j) * block_frame < Len(input_wav_denoise)

\* C31: whenever the denoised ring buffer is read, after any switching of the
\* input noise reduction, it holds the denoised blocks of the consecutive
\* callbacks that end with the current one: none of them is missing, and the
\* newest block_frame samples are those written by the current callback.
C31_DenoisedBlocksConsecutive ==
    DenoisedRead =>
        /\ \A j \in 1..Len(held) : InWindow(j) => held[j]
        /\ LastN(input_wav_denoise, block_frame)
              = SubSeq(Blended, 1, block_frame)

\* C31 for the sessions whose noise reduction was on in every callback: the
\* buffer moved by one block per callback and its newest block is the last
\* written
C31_ConsecutiveWhileOn ==
    (DenoisedRead /\ \A j \in 1..Len(held) : held[j]) =>
        /\ Len(held) = calls
        /\ \A i \in 1..(Len(input_wav_denoise) - block_frame) :
              input_wav_denoise[i] = old_denoise[i + block_frame]
        /\ LastN(input_wav_denoise, block_frame)
              = SubSeq(Blended, 1, block_frame)


(***************************************************************************)
(* Properties of the gate's lookback tail.                                 *)
(***************************************************************************)
\* C32: whenever the gate runs, the lookback tail it reads holds the last
\* 4 * zc raw samples the stream handed over before the block, also after
\* callbacks that ran with the threshold at -60, and the tail it leaves holds
\* the last 4 * zc raw samples including the block, whatever was zeroed.
C32_TailIsLastRawInput ==
    Gated =>
        /\ Len(old_rms) = 4 * zc
        /\ old_rms = old_raw
        /\ rms_buffer = raw_tail

\* C32 for the sessions whose gate ran in every callback: the tail read is
\* the raw input before the block, the tail left is the raw input with it
C32_TailWhileGateOn ==
    Gated =>
        /\ Len(old_rms) = 4 * zc
        /\ rms_buffer = LastN(old_rms \o block, 4 * zc)
        /\ old_rms = old_raw => rms_buffer = raw_tail


(***************************************************************************)
(* Properties of the events that are not hot updates.                      *)
(***************************************************************************)
\* the session streams: the flag is set and the stream it holds runs
Streaming == flag_vc /\ StreamRuns

\* an event that is neither start_vc nor one of the hot updates
NonHotEvent ==
    \/ OtherEvent
    \/ StopVc
    \/ ReloadDevices
    \/ HostApiChanged
    \/ WindowClosed

\* the settings a session is sized from
SessionSizing == {"block_time", "crossfade_time", "extra_time", "n_cpu"}

\* C33: while the session streams, every event that is neither start_vc nor
\* a hot update ends the streaming: the flag is cleared and no stream runs
\* any more; the event changes neither the sizing settings nor the engine nor
\* the buffers, and a session that streams has the sizes its start computed
\* from the settings.
C33_NonHotEventStopsStream ==
    /\ [](Streaming =>
            /\ buffers.block_time = gui_config.block_time
            /\ buffers.crossfade_time = gui_config.crossfade_time
            /\ buffers.extra_time = gui_config.extra_time
            /\ rvc.n_cpu = gui_config.n_cpu)
    /\ [][(Streaming /\ NonHotEvent) =>
            /\ ~flag_vc'
            /\ \A i \in StreamIds : sstate'[i] # "active"
            /\ \A f \in SessionSizing : gui_config'[f] = gui_config[f]
            /\ buffers' = buffers
            /\ rvc' = rvc]_vars

\* a widget that is not hot-updatable was moved while the session streamed:
\* the stream is closed and the settings are those of the start
C33_Witness ==
    /\ last.ev = "other"
    /\ last.was
    /\ ~flag_vc
    /\ stream = None
    /\ \E i \in StreamIds : sstate[i] = "closed"
    /\ rvc.gen > 0
    /\ buffers.block_time = gui_config.block_time


(***************************************************************************)
(* Properties of the blend of the overlap region.                          *)
(***************************************************************************)
\* the last callback got as far as the blend
Blent == calls > 0 /\ raised = "none" /\ stitched # <<>>

\* C34: the overlap region of a block is blended by the phase vocoder exactly
\* when use_pv is set and the device is not a privateuseone device; in every
\* other case it is the linear crossfade of the shifted block with the saved
\* tail; the samples after the first sola_buffer_frame are the inferred ones.
C34_VocoderIffEnabledAndSupported ==
    /\ [][(calls' = calls + 1 /\ raised' = "none") =>
            (blend' = "phase_vocoder"
                <=> (gui_config.use_pv /\ ~PrivateUse(device)))]_vars
    /\ [](Blent =>
            /\ blend \in {"phase_vocoder", "linear"}
            /\ Len(stitched) = Len(infer_wav) - sola_offset
            /\ \A k \in 1..Len(stitched) :
                  k > sola_buffer_frame
                      => stitched[k] = infer_wav[sola_offset + k]
            /\ blend = "linear" =>
                  \A k \in 1..sola_buffer_frame :
                      stitched[k]
                          = Mul(infer_wav[sola_offset + k], fade_in_window[k])
                            + Mul(old_sola[k], fade_out_window[k])
            /\ blend = "phase_vocoder" =>
                  SubSeq(stitched, 1, sola_buffer_frame)
                      = PhaseVocoder(old_sola,
                                     SubSeq(infer_wav, sola_offset + 1,
                                            sola_offset + sola_buffer_frame),
                                     fade_out_window, fade_in_window))

\* a block blended by the phase vocoder whose overlap differs from the
\* linear crossfade
C34_Witness ==
    /\ Blent
    /\ blend = "phase_vocoder"
    /\ gui_config.use_pv
    /\ \E k \in 1..sola_buffer_frame :
          stitched[k] # Mul(infer_wav[sola_offset + k], fade_in_window[k])
                        + Mul(old_sola[k], fade_out_window[k])

\* use_pv is set on a privateuseone device: the linear crossfade
C34_WitnessPrivateUse ==
    /\ Blent
    /\ gui_config.use_pv
    /\ PrivateUse(device)
    /\ blend = "linear"
    /\ \E k \in 1..sola_buffer_frame : stitched[k] # infer_wav[sola_offset + k]

=============================================================================
